---------------------------- MODULE Spec2Model ----------------------------
(***************************************************************************)
(* Model of the analytics engine of lastfmstats (src/src/load_scrobbles.py, *)
(* class ScrobblesAnalyzer): the rankers, the date filter, the local-time   *)
(* normaliser and the streak finders, as operators computed the way the     *)
(* code computes them, driven by a state machine that loads a scrobble list *)
(* and calls the analyzer on it.                                            *)
(*                                                                          *)
(* Representation.                                                          *)
(*   - A date text "DD Mon YYYY, HH:MM" is the tuple <<DD, "Mon", YYYY, HH,  *)
(*     MM>>; the empty string is <<>>; "DD Mon YYYY" is <<DD, "Mon", YYYY>>. *)
(*   - Python's Optional is a sequence of length 0 (None) or 1 (a value).   *)
(*   - A naive datetime is its number of minutes since 0001-01-01 00:00 of  *)
(*     the proleptic Gregorian calendar, shifted so that day ordinal 1 is   *)
(*     minute 1440; a date is its ordinal (date.toordinal()).               *)
(*   - A dict / Counter is the sequence of its <<key, value>> items in      *)
(*     insertion order, which is the order Python iterates it in.           *)
(***************************************************************************)
EXTENDS Integers, Sequences, FiniteSets, TLC

VARIABLES scrobbles, utcoffset, last

vars == <<scrobbles, utcoffset, last>>

None == <<>>
Some(x) == <<x>>

(***************************************************************************)
(* Sequence helpers                                                        *)
(***************************************************************************)
Range(s) == {s[i] : i \in 1..Len(s)}

Take(s, n) == IF n <= 0 THEN <<>> ELSE SubSeq(s, 1, IF n < Len(s) THEN n ELSE Len(s))

(***************************************************************************)
(* The calendar: datetime's proleptic Gregorian arithmetic                 *)
(***************************************************************************)
Months == <<"Jan", "Feb", "Mar", "Apr", "May", "Jun",
            "Jul", "Aug", "Sep", "Oct", "Nov", "Dec">>

MonthNumber(mon) ==
    IF \E i \in 1..12 : Months[i] = mon
    THEN CHOOSE i \in 1..12 : Months[i] = mon
    ELSE 0

is_leap(y) == (y % 4 = 0) /\ ((y % 100 # 0) \/ (y % 400 = 0))

days_in_month(y, m) ==
    IF m = 2 THEN (IF is_leap(y) THEN 29 ELSE 28)
    ELSE IF m \in {4, 6, 9, 11} THEN 30 ELSE 31

RECURSIVE days_before_month(_, _)
days_before_month(y, m) ==
    IF m <= 1 THEN 0 ELSE days_before_month(y, m - 1) + days_in_month(y, m - 1)

days_before_year(y) ==
    (y - 1) * 365 + ((y - 1) \div 4) - ((y - 1) \div 100) + ((y - 1) \div 400)

ymd2ord(y, m, d) == days_before_year(y) + days_before_month(y, m) + d

RECURSIVE MonthOfYearDay(_, _, _)
MonthOfYearDay(y, m, n) ==
    IF n <= days_in_month(y, m) THEN <<m, n>>
    ELSE MonthOfYearDay(y, m + 1, n - days_in_month(y, m))

\* ord2ymd: the year is found from the 400/100/4/1-year cycles, then the month.
ord2ymd(ord) ==
    LET n0   == ord - 1
        n400 == n0 \div 146097
        r400 == n0 % 146097
        n100 == r400 \div 36524
        r100 == r400 % 36524
        n4   == r100 \div 1461
        r4   == r100 % 1461
        n1   == r4 \div 365
        r1   == r4 % 365
        year == n400 * 400 + n100 * 100 + n4 * 4 + n1 + 1
    IN  IF n1 = 4 \/ n100 = 4
        THEN <<year - 1, 12, 31>>
        ELSE LET md == MonthOfYearDay(year, 1, r1 + 1)
             IN  <<year, md[1], md[2]>>

\* datetime.strptime(text, "%d %b %Y, %H:%M"): ValueError is None here.
strptime(text) ==
    IF Len(text) # 5 THEN None
    ELSE LET d == text[1]  m == MonthNumber(text[2])  y == text[3]
             hh == text[4]  mi == text[5]
         IN  IF /\ m # 0
                /\ y \in 1..9999
                /\ d \in 1..days_in_month(y, m)
                /\ hh \in 0..23
                /\ mi \in 0..59
             THEN Some(ymd2ord(y, m, d) * 1440 + hh * 60 + mi)
             ELSE None

\* datetime.date(): the ordinal of the day of a datetime.
date_of(dt) == dt \div 1440

hour_of(dt) == (dt % 1440) \div 60

\* strftime("%d %b %Y") of a date ordinal.
strftime_day(ord) ==
    LET ymd == ord2ymd(ord) IN <<ymd[3], Months[ymd[2]], ymd[1]>>

(***************************************************************************)
(* ScrobblesAnalyzer: date parsing and the date filter                     *)
(***************************************************************************)
_parse_date(date_str) ==
    IF date_str = <<>> THEN None ELSE strptime(date_str)

\* Mutant of Falsy: only None is taken as "no bound".
Falsy_NoneOnly(arg) == arg = None

\* A bound argument (from_date / to_date) is None or Some(text); Python's
\* "not x" holds of None and of the empty string.
Falsy(arg) == arg = None \/ arg[1] = <<>>

\* Mutant of FilterLoop: the bounds are exclusive.
RECURSIVE FilterLoop_Exclusive(_, _, _)
FilterLoop_Exclusive(s, from_dt, to_dt) ==
    IF s = <<>> THEN <<>>
    ELSE LET scrobble_dt == _parse_date(Head(s).utc_time)
             rest == FilterLoop_Exclusive(Tail(s), from_dt, to_dt)
         IN  IF scrobble_dt = None THEN rest
             ELSE IF from_dt # None /\ scrobble_dt[1] <= from_dt[1] THEN rest
             ELSE IF to_dt # None /\ scrobble_dt[1] >= to_dt[1] THEN rest
             ELSE <<Head(s)>> \o rest

RECURSIVE FilterLoop(_, _, _)
FilterLoop(s, from_dt, to_dt) ==
    IF s = <<>> THEN <<>>
    ELSE LET scrobble_dt == _parse_date(Head(s).utc_time)
             rest == FilterLoop(Tail(s), from_dt, to_dt)
         IN  IF scrobble_dt = None THEN rest
             ELSE IF from_dt # None /\ scrobble_dt[1] < from_dt[1] THEN rest
             ELSE IF to_dt # None /\ scrobble_dt[1] > to_dt[1] THEN rest
             ELSE <<Head(s)>> \o rest

\* Mutant of _filter_scrobbles_by_date: the loop runs without bounds too.
_filter_scrobbles_by_date_Always(s, from_date, to_date) ==
    LET from_dt == IF ~Falsy(from_date) THEN _parse_date(from_date[1]) ELSE None
        to_dt   == IF ~Falsy(to_date) THEN _parse_date(to_date[1]) ELSE None
    IN  FilterLoop(s, from_dt, to_dt)

_filter_scrobbles_by_date(s, from_date, to_date) ==
    IF Falsy(from_date) /\ Falsy(to_date) THEN s
    ELSE LET from_dt == IF ~Falsy(from_date) THEN _parse_date(from_date[1]) ELSE None
             to_dt   == IF ~Falsy(to_date) THEN _parse_date(to_date[1]) ELSE None
         IN  FilterLoop(s, from_dt, to_dt)

(***************************************************************************)
(* collections.Counter                                                     *)
(***************************************************************************)
\* counter[key] += 1 on the item sequence: a new key is appended.
RECURSIVE CounterAdd(_, _)
CounterAdd(items, key) ==
    IF items = <<>> THEN << <<key, 1>> >>
    ELSE IF Head(items)[1] = key
         THEN << <<key, Head(items)[2] + 1>> >> \o Tail(items)
         ELSE <<Head(items)>> \o CounterAdd(Tail(items), key)

RECURSIVE CounterOf(_)
CounterOf(keys) ==
    IF keys = <<>> THEN <<>>
    ELSE CounterAdd(CounterOf(SubSeq(keys, 1, Len(keys) - 1)), keys[Len(keys)])

\* sorted(items, key=item[field], reverse=True): stable, so equal values keep
\* their order. Insertion of each item after the last one not smaller.
\* Mutant of InsertDesc: an item goes before the items of equal value.
RECURSIVE InsertDesc_Unstable(_, _, _)
InsertDesc_Unstable(sorted, item, field) ==
    IF sorted = <<>> THEN <<item>>
    ELSE IF Head(sorted)[field] > item[field]
         THEN <<Head(sorted)>> \o InsertDesc_Unstable(Tail(sorted), item, field)
         ELSE <<item>> \o sorted

RECURSIVE InsertDesc(_, _, _)
InsertDesc(sorted, item, field) ==
    IF sorted = <<>> THEN <<item>>
    ELSE IF Head(sorted)[field] >= item[field]
         THEN <<Head(sorted)>> \o InsertDesc(Tail(sorted), item, field)
         ELSE <<item>> \o sorted

RECURSIVE SortDesc(_, _)
SortDesc(items, field) ==
    IF items = <<>> THEN <<>>
    ELSE InsertDesc(SortDesc(SubSeq(items, 1, Len(items) - 1), field),
                    items[Len(items)], field)

\* Mutant of most_common: the items in insertion order, cut to n.
most_common_Unsorted(counter, n) == Take(counter, n)

\* Mutant of most_common: n is ignored.
most_common_All(counter, n) == SortDesc(counter, 2)

\* Counter.most_common(n) is heapq.nlargest(n, items, key=count), which is
\* sorted(items, key=count, reverse=True)[:n].
most_common(counter, n) == Take(SortDesc(counter, 2), n)

(***************************************************************************)
(* ScrobblesAnalyzer: the rankers                                          *)
(***************************************************************************)
RECURSIVE ArtistKeys(_)
ArtistKeys(s) ==
    IF s = <<>> THEN <<>>
    ELSE (IF Head(s).artist # "" THEN <<Head(s).artist>> ELSE <<>>)
         \o ArtistKeys(Tail(s))

RECURSIVE AlbumKeys(_)
AlbumKeys(s) ==
    IF s = <<>> THEN <<>>
    ELSE (IF Head(s).album # "" THEN << <<Head(s).artist, Head(s).album>> >> ELSE <<>>)
         \o AlbumKeys(Tail(s))

\* Mutant of TrackKeys: an event equal to an earlier one is counted once.
RECURSIVE TrackKeys_Dedup(_)
TrackKeys_Dedup(s) ==
    IF s = <<>> THEN <<>>
    ELSE LET e == s[Len(s)]
             before == SubSeq(s, 1, Len(s) - 1)
         IN  TrackKeys_Dedup(before)
             \o (IF e.track # "" /\ e \notin Range(before)
                 THEN << <<e.artist, e.track>> >> ELSE <<>>)

RECURSIVE TrackKeys(_)
TrackKeys(s) ==
    IF s = <<>> THEN <<>>
    ELSE (IF Head(s).track # "" THEN << <<Head(s).artist, Head(s).track>> >> ELSE <<>>)
         \o TrackKeys(Tail(s))

get_top_artists(s, n, from_date, to_date) ==
    LET filtered == _filter_scrobbles_by_date(s, from_date, to_date)
    IN  most_common(CounterOf(ArtistKeys(filtered)), n)

get_top_albums(s, n, from_date, to_date) ==
    LET filtered == _filter_scrobbles_by_date(s, from_date, to_date)
    IN  most_common(CounterOf(AlbumKeys(filtered)), n)

get_top_tracks(s, n, from_date, to_date) ==
    LET filtered == _filter_scrobbles_by_date(s, from_date, to_date)
    IN  most_common(CounterOf(TrackKeys(filtered)), n)

(***************************************************************************)
(* ScrobblesAnalyzer: the normaliser                                       *)
(***************************************************************************)
\* The UTC text parsed and shifted by the offset the process has at the time
\* of the call (datetime.now(timezone.utc).astimezone().utcoffset(), here the
\* variable utcoffset, in minutes); None when the text is empty or malformed.
_utc_to_local(utc_time_str) ==
    IF utc_time_str = <<>> THEN None
    ELSE LET dt_utc == strptime(utc_time_str)
         IN  IF dt_utc = None THEN None ELSE Some(dt_utc[1] + utcoffset)

(***************************************************************************)
(* ScrobblesAnalyzer: the streak finders                                   *)
(***************************************************************************)
\* defaultdict(set): days[key].add(day) on the item sequence.
RECURSIVE DaysAdd(_, _, _)
DaysAdd(items, key, day) ==
    IF items = <<>> THEN << <<key, {day}>> >>
    ELSE IF Head(items)[1] = key
         THEN << <<key, Head(items)[2] \cup {day}>> >> \o Tail(items)
         ELSE <<Head(items)>> \o DaysAdd(Tail(items), key, day)

\* sorted(days_set)
RECURSIVE sorted_days(_)
sorted_days(days_set) ==
    IF days_set = {} THEN <<>>
    ELSE LET d == CHOOSE x \in days_set : \A z \in days_set : x <= z
         IN  <<d>> \o sorted_days(days_set \ {d})

\* The state of the scan before any day is read.
ScanStart ==
    [max_streak |-> 0, max_start |-> None, max_end |-> None,
     cur_streak |-> 0, cur_start |-> None, prev_day |-> None]

\* Mutant of ScanStep: a run closed at a gap ends on the day after the gap.
ScanStep_EndAtGap(st, d) ==
    LET st1 ==
          IF st.prev_day = None
          THEN [st EXCEPT !.cur_streak = 1, !.cur_start = Some(d)]
          ELSE IF d - st.prev_day[1] = 1
               THEN [st EXCEPT !.cur_streak = st.cur_streak + 1]
               ELSE LET closed ==
                          IF st.cur_streak > st.max_streak
                          THEN [st EXCEPT !.max_streak = st.cur_streak,
                                          !.max_start = st.cur_start,
                                          !.max_end = Some(d)]
                          ELSE st
                    IN  [closed EXCEPT !.cur_streak = 1, !.cur_start = Some(d)]
    IN  [st1 EXCEPT !.prev_day = Some(d)]

\* Mutant of ScanStep: any later day continues the run.
ScanStep_AnyGap(st, d) ==
    LET st1 ==
          IF st.prev_day = None
          THEN [st EXCEPT !.cur_streak = 1, !.cur_start = Some(d)]
          ELSE IF d - st.prev_day[1] >= 1
               THEN [st EXCEPT !.cur_streak = st.cur_streak + 1]
               ELSE LET closed ==
                          IF st.cur_streak > st.max_streak
                          THEN [st EXCEPT !.max_streak = st.cur_streak,
                                          !.max_start = st.cur_start,
                                          !.max_end = st.prev_day]
                          ELSE st
                    IN  [closed EXCEPT !.cur_streak = 1, !.cur_start = Some(d)]
    IN  [st1 EXCEPT !.prev_day = Some(d)]

\* One turn of "for d in days_sorted".
ScanStep(st, d) ==
    LET st1 ==
          IF st.prev_day = None
          THEN [st EXCEPT !.cur_streak = 1, !.cur_start = Some(d)]
          ELSE IF d - st.prev_day[1] = 1
               THEN [st EXCEPT !.cur_streak = st.cur_streak + 1]
               ELSE LET closed ==
                          IF st.cur_streak > st.max_streak
                          THEN [st EXCEPT !.max_streak = st.cur_streak,
                                          !.max_start = st.cur_start,
                                          !.max_end = st.prev_day]
                          ELSE st
                    IN  [closed EXCEPT !.cur_streak = 1, !.cur_start = Some(d)]
    IN  [st1 EXCEPT !.prev_day = Some(d)]

RECURSIVE ScanLoop(_, _)
ScanLoop(st, days_sorted) ==
    IF days_sorted = <<>> THEN st
    ELSE ScanLoop(ScanStep(st, Head(days_sorted)), Tail(days_sorted))

\* Mutant of ScanClose: the run still open at the end is forgotten.
ScanClose_Skip(st) == st

\* Mutant of ScanClose: the last run also wins a tie with the longest so far.
ScanClose_TieToLast(st) ==
    IF st.cur_streak >= st.max_streak
    THEN [st EXCEPT !.max_streak = st.cur_streak,
                    !.max_start = st.cur_start,
                    !.max_end = st.prev_day]
    ELSE st

\* "Chequear la ultima racha": the run still open when the scan ends.
ScanClose(st) ==
    IF st.cur_streak > st.max_streak
    THEN [st EXCEPT !.max_streak = st.cur_streak,
                    !.max_start = st.cur_start,
                    !.max_end = st.prev_day]
    ELSE st

\* The body of "for key, days_set in days.items()": the entries it appends.
StreakEntry(key, days_set) ==
    IF days_set = {} THEN <<>>
    ELSE LET st == ScanClose(ScanLoop(ScanStart, sorted_days(days_set)))
         IN  IF st.max_streak > 0 /\ st.max_start # None /\ st.max_end # None
             THEN << <<key, st.max_streak,
                       strftime_day(st.max_start[1]), strftime_day(st.max_end[1])>> >>
             ELSE <<>>

RECURSIVE StreakResults(_)
StreakResults(days) ==
    IF days = <<>> THEN <<>>
    ELSE StreakEntry(Head(days)[1], Head(days)[2]) \o StreakResults(Tail(days))

\* Mutant of StreakTop: the results are cut to n without being sorted.
StreakTop_Unsorted(days, n) ==
    IF days = <<>> THEN None
    ELSE LET results == StreakResults(days)
         IN  IF results = <<>> THEN None ELSE Some(Take(results, n))

\* results.sort(key=streak, reverse=True); return results[:n] if results else None
StreakTop(days, n) ==
    IF days = <<>> THEN None
    ELSE LET results == SortDesc(StreakResults(days), 2)
         IN  IF results = <<>> THEN None ELSE Some(Take(results, n))

RECURSIVE track_days(_)
track_days(s) ==
    IF s = <<>> THEN <<>>
    ELSE LET scrobble == s[Len(s)]
             before == track_days(SubSeq(s, 1, Len(s) - 1))
             local_dt == _utc_to_local(scrobble.utc_time)
         IN  IF local_dt # None /\ scrobble.track # "" /\ scrobble.artist # ""
             THEN DaysAdd(before, <<scrobble.artist, scrobble.track>>, date_of(local_dt[1]))
             ELSE before

\* Mutant of artist_days: the day is the day of the UTC timestamp.
RECURSIVE artist_days_UtcDay(_)
artist_days_UtcDay(s) ==
    IF s = <<>> THEN <<>>
    ELSE LET scrobble == s[Len(s)]
             before == artist_days_UtcDay(SubSeq(s, 1, Len(s) - 1))
             local_dt == _utc_to_local(scrobble.utc_time)
         IN  IF local_dt # None /\ scrobble.artist # ""
             THEN DaysAdd(before, scrobble.artist,
                          date_of(strptime(scrobble.utc_time)[1]))
             ELSE before

\* Mutant of artist_days: an event with no album is not grouped.
RECURSIVE artist_days_NeedsAlbum(_)
artist_days_NeedsAlbum(s) ==
    IF s = <<>> THEN <<>>
    ELSE LET scrobble == s[Len(s)]
             before == artist_days_NeedsAlbum(SubSeq(s, 1, Len(s) - 1))
             local_dt == _utc_to_local(scrobble.utc_time)
         IN  IF local_dt # None /\ scrobble.artist # "" /\ scrobble.album # ""
             THEN DaysAdd(before, scrobble.artist, date_of(local_dt[1]))
             ELSE before

RECURSIVE artist_days(_)
artist_days(s) ==
    IF s = <<>> THEN <<>>
    ELSE LET scrobble == s[Len(s)]
             before == artist_days(SubSeq(s, 1, Len(s) - 1))
             local_dt == _utc_to_local(scrobble.utc_time)
         IN  IF local_dt # None /\ scrobble.artist # ""
             THEN DaysAdd(before, scrobble.artist, date_of(local_dt[1]))
             ELSE before

\* Mutant of album_days: an event with no album is grouped as well.
RECURSIVE album_days_NoAlbumCheck(_)
album_days_NoAlbumCheck(s) ==
    IF s = <<>> THEN <<>>
    ELSE LET scrobble == s[Len(s)]
             before == album_days_NoAlbumCheck(SubSeq(s, 1, Len(s) - 1))
             local_dt == _utc_to_local(scrobble.utc_time)
         IN  IF local_dt # None /\ scrobble.artist # ""
             THEN DaysAdd(before, <<scrobble.artist, scrobble.album>>, date_of(local_dt[1]))
             ELSE before

RECURSIVE album_days(_)
album_days(s) ==
    IF s = <<>> THEN <<>>
    ELSE LET scrobble == s[Len(s)]
             before == album_days(SubSeq(s, 1, Len(s) - 1))
             local_dt == _utc_to_local(scrobble.utc_time)
         IN  IF local_dt # None /\ scrobble.artist # "" /\ scrobble.album # ""
             THEN DaysAdd(before, <<scrobble.artist, scrobble.album>>, date_of(local_dt[1]))
             ELSE before

get_top_tracks_by_consecutive_days(s, n) ==
    IF s = <<>> THEN None ELSE StreakTop(track_days(s), n)

get_top_artists_by_consecutive_days(s, n) ==
    IF s = <<>> THEN None ELSE StreakTop(artist_days(s), n)

get_top_albums_by_consecutive_days(s, n) ==
    IF s = <<>> THEN None ELSE StreakTop(album_days(s), n)

(***************************************************************************)
(* ScrobblesAnalyzer: the day aggregators and the hourly profile           *)
(***************************************************************************)
\* defaultdict(Counter): items[outer][inner] += 1 on the item sequence.
RECURSIVE NestedCounterAdd(_, _, _)
NestedCounterAdd(items, outer, inner) ==
    IF items = <<>> THEN << <<outer, CounterAdd(<<>>, inner)>> >>
    ELSE IF Head(items)[1] = outer
         THEN << <<outer, CounterAdd(Head(items)[2], inner)>> >> \o Tail(items)
         ELSE <<Head(items)>> \o NestedCounterAdd(Tail(items), outer, inner)

\* local_dt.strftime("%d %b %Y")
day_key_of(local_dt) == strftime_day(date_of(local_dt))

\* Mutant of day_tracks: the day is the day of the UTC timestamp.
RECURSIVE day_tracks_UtcDay(_)
day_tracks_UtcDay(s) ==
    IF s = <<>> THEN <<>>
    ELSE LET scrobble == s[Len(s)]
             before == day_tracks_UtcDay(SubSeq(s, 1, Len(s) - 1))
             local_dt == _utc_to_local(scrobble.utc_time)
         IN  IF local_dt # None
             THEN NestedCounterAdd(before, day_key_of(strptime(scrobble.utc_time)[1]),
                                   <<scrobble.artist, scrobble.track>>)
             ELSE before

RECURSIVE day_tracks(_)
day_tracks(s) ==
    IF s = <<>> THEN <<>>
    ELSE LET scrobble == s[Len(s)]
             before == day_tracks(SubSeq(s, 1, Len(s) - 1))
             local_dt == _utc_to_local(scrobble.utc_time)
         IN  IF local_dt # None
             THEN NestedCounterAdd(before, day_key_of(local_dt[1]),
                                   <<scrobble.artist, scrobble.track>>)
             ELSE before

\* [s for s in scrobbles if s.artist == artist and s.track == track]
RECURSIVE scrobbles_of_track(_, _, _)
scrobbles_of_track(s, artist, track) ==
    IF s = <<>> THEN <<>>
    ELSE (IF Head(s).artist = artist /\ Head(s).track = track
          THEN <<Head(s)>> ELSE <<>>)
         \o scrobbles_of_track(Tail(s), artist, track)

\* images.get(size, '')
images_get(images, size) ==
    IF size \in DOMAIN images THEN images[size] ELSE ""

\* Mutant of image_url_of: the large image is preferred.
image_url_of_LargeFirst(scrobble) ==
    IF images_get(scrobble.images, "large") # ""
    THEN images_get(scrobble.images, "large")
    ELSE IF images_get(scrobble.images, "extralarge") # ""
         THEN images_get(scrobble.images, "extralarge")
         ELSE images_get(scrobble.images, "medium")

image_url_of(scrobble) ==
    IF images_get(scrobble.images, "extralarge") # ""
    THEN images_get(scrobble.images, "extralarge")
    ELSE IF images_get(scrobble.images, "large") # ""
         THEN images_get(scrobble.images, "large")
         ELSE images_get(scrobble.images, "medium")

\* Mutant of MostPlayedEntry: the pair first played that day, not the most
\* played one.
MostPlayedEntry_First(s, day, track_counts) ==
    IF track_counts = <<>> THEN <<>>
    ELSE LET top == track_counts[1]
             day_scrobbles == scrobbles_of_track(s, top[1][1], top[1][2])
         IN  << <<day, <<top[1][1], top[1][2], image_url_of(day_scrobbles[1]),
                         day_scrobbles[1].url, top[2]>> >> >>

\* The body of "for day, track_counts in day_tracks.items()".
MostPlayedEntry(s, day, track_counts) ==
    IF track_counts = <<>> THEN <<>>
    ELSE LET top == most_common(track_counts, 1)[1]
             artist == top[1][1]
             track == top[1][2]
             day_scrobbles == scrobbles_of_track(s, artist, track)
         IN  IF day_scrobbles = <<>> THEN <<>>
             ELSE << <<day, <<artist, track, image_url_of(day_scrobbles[1]),
                              day_scrobbles[1].url, top[2]>> >> >>

RECURSIVE MostPlayedResult(_, _)
MostPlayedResult(s, days) ==
    IF days = <<>> THEN <<>>
    ELSE MostPlayedEntry(s, Head(days)[1], Head(days)[2])
         \o MostPlayedResult(s, Tail(days))

\* The dict returned is the sequence of its <<day, info>> items.
get_most_played_track_per_day(s) ==
    IF s = <<>> THEN None
    ELSE LET days == day_tracks(s)
         IN  IF days = <<>> THEN None
             ELSE LET result == MostPlayedResult(s, days)
                  IN  IF result # <<>> THEN Some(result) ELSE None

RECURSIVE track_day_counts(_)
track_day_counts(s) ==
    IF s = <<>> THEN <<>>
    ELSE LET scrobble == s[Len(s)]
             before == track_day_counts(SubSeq(s, 1, Len(s) - 1))
             local_dt == _utc_to_local(scrobble.utc_time)
         IN  IF local_dt # None
             THEN NestedCounterAdd(before, <<scrobble.artist, scrobble.track>>,
                                   day_key_of(local_dt[1]))
             ELSE before

\* max(day_counts.items(), key=lambda x: x[1]): the first item of the
\* greatest count.
\* Mutant of max_by_count: of the items of the greatest count, the last.
RECURSIVE max_by_count_Last(_)
max_by_count_Last(items) ==
    IF Len(items) = 1 THEN items[1]
    ELSE LET best == max_by_count_Last(SubSeq(items, 1, Len(items) - 1))
         IN  IF items[Len(items)][2] >= best[2] THEN items[Len(items)] ELSE best

RECURSIVE max_by_count(_)
max_by_count(items) ==
    IF Len(items) = 1 THEN items[1]
    ELSE LET best == max_by_count(SubSeq(items, 1, Len(items) - 1))
         IN  IF items[Len(items)][2] > best[2] THEN items[Len(items)] ELSE best

RECURSIVE PeakResults(_)
PeakResults(tracks) ==
    IF tracks = <<>> THEN <<>>
    ELSE (IF Head(tracks)[2] # <<>>
          THEN LET peak_day == max_by_count(Head(tracks)[2])
               IN  << <<Head(tracks)[1], peak_day[2], peak_day[1]>> >>
          ELSE <<>>)
         \o PeakResults(Tail(tracks))

get_top_tracks_by_peak_plays(s, n) ==
    IF s = <<>> THEN None
    ELSE LET tracks == track_day_counts(s)
         IN  IF tracks = <<>> THEN None
             ELSE LET result == SortDesc(PeakResults(tracks), 2)
                  IN  IF result # <<>> THEN Some(Take(result, n)) ELSE None

\* The day keys of the events that convert to local time, in list order.
RECURSIVE day_keys(_)
day_keys(s) ==
    IF s = <<>> THEN <<>>
    ELSE LET local_dt == _utc_to_local(Head(s).utc_time)
         IN  (IF local_dt # None THEN <<day_key_of(local_dt[1])>> ELSE <<>>)
             \o day_keys(Tail(s))

\* day_counts = Counter(); day_counts[day_key] += 1
day_counts(s) == CounterOf(day_keys(s))

get_peak_day_for_track(s, artist, track) ==
    LET track_scrobbles == scrobbles_of_track(s, artist, track)
    IN  IF track_scrobbles = <<>> THEN None
        ELSE LET counts == day_counts(track_scrobbles)
             IN  IF counts = <<>> THEN None
                 ELSE LET peak == most_common(counts, 1)[1]
                      IN  Some(<<peak[1], peak[2], Len(track_scrobbles)>>)

\* Mutant of get_all_days_for_track: most_common(1) for most_common().
get_all_days_for_track_PeakOnly(s, artist, track) ==
    LET track_scrobbles == scrobbles_of_track(s, artist, track)
    IN  IF track_scrobbles = <<>> THEN None
        ELSE LET counts == day_counts(track_scrobbles)
             IN  IF counts = <<>> THEN None ELSE Some(most_common(counts, 1))

get_all_days_for_track(s, artist, track) ==
    LET track_scrobbles == scrobbles_of_track(s, artist, track)
    IN  IF track_scrobbles = <<>> THEN None
        ELSE LET counts == day_counts(track_scrobbles)
             IN  IF counts = <<>> THEN None
                 ELSE Some(most_common(counts, Len(counts)))

\* Mutant of get_top_days_overall: a placeholder day of count 0 when there is
\* nothing to count.
get_top_days_overall_ZeroDay(s, n) ==
    LET counts == day_counts(s)
    IN  IF counts = <<>> THEN Some(<< <<"", 0>> >>) ELSE Some(most_common(counts, n))

get_top_days_overall(s, n) ==
    IF s = <<>> THEN None
    ELSE LET counts == day_counts(s)
         IN  IF counts = <<>> THEN None ELSE Some(most_common(counts, n))

RECURSIVE day_artists(_)
day_artists(s) ==
    IF s = <<>> THEN <<>>
    ELSE LET scrobble == s[Len(s)]
             before == day_artists(SubSeq(s, 1, Len(s) - 1))
             local_dt == _utc_to_local(scrobble.utc_time)
         IN  IF local_dt # None /\ scrobble.artist # ""
             THEN DaysAdd(before, day_key_of(local_dt[1]), scrobble.artist)
             ELSE before

RECURSIVE day_track_sets(_)
day_track_sets(s) ==
    IF s = <<>> THEN <<>>
    ELSE LET scrobble == s[Len(s)]
             before == day_track_sets(SubSeq(s, 1, Len(s) - 1))
             local_dt == _utc_to_local(scrobble.utc_time)
         IN  IF local_dt # None /\ scrobble.track # ""
             THEN DaysAdd(before, day_key_of(local_dt[1]),
                          <<scrobble.artist, scrobble.track>>)
             ELSE before

\* [(day, len(members)) for day, members in day_sets.items()]
set_sizes(day_sets) ==
    [i \in DOMAIN day_sets |-> <<day_sets[i][1], Cardinality(day_sets[i][2])>>]

\* Mutant of get_top_days_overall_by_artist_count: the plays that name an
\* artist are counted, not the distinct artists.
HasArtist(e) == e.artist # ""

get_top_days_overall_by_artist_count_Plays(s, n) ==
    IF s = <<>> THEN None
    ELSE LET counts == day_counts(SelectSeq(s, HasArtist))
         IN  IF counts = <<>> THEN None ELSE Some(most_common(counts, n))

get_top_days_overall_by_artist_count(s, n) ==
    IF s = <<>> THEN None
    ELSE LET sets == day_artists(s)
         IN  IF sets = <<>> THEN None
             ELSE Some(Take(SortDesc(set_sizes(sets), 2), n))

get_top_days_overall_by_track_count(s, n) ==
    IF s = <<>> THEN None
    ELSE LET sets == day_track_sets(s)
         IN  IF sets = <<>> THEN None
             ELSE Some(Take(SortDesc(set_sizes(sets), 2), n))

\* str(h) for an hour of the day.
hour_str(h) ==
    <<"0", "1", "2", "3", "4", "5", "6", "7", "8", "9", "10", "11", "12",
      "13", "14", "15", "16", "17", "18", "19", "20", "21", "22", "23">>[h + 1]

\* The events the loop of get_hourly_top files under hour h.
\* Mutant of hour_scrobbles: the hour of the UTC text, not the local hour.
RECURSIVE hour_scrobbles_Utc(_, _)
hour_scrobbles_Utc(s, h) ==
    IF s = <<>> THEN <<>>
    ELSE LET dt_utc == strptime(Head(s).utc_time)
         IN  (IF dt_utc # None /\ hour_of(dt_utc[1]) = h
              THEN <<Head(s)>> ELSE <<>>)
             \o hour_scrobbles_Utc(Tail(s), h)

RECURSIVE hour_scrobbles(_, _)
hour_scrobbles(s, h) ==
    IF s = <<>> THEN <<>>
    ELSE LET local_dt == _utc_to_local(Head(s).utc_time)
         IN  (IF local_dt # None /\ hour_of(local_dt[1]) = h
              THEN <<Head(s)>> ELSE <<>>)
             \o hour_scrobbles(Tail(s), h)

\* result[str(h)] of get_hourly_top; an absent top is the empty tuple.
hourly_info(s, h) ==
    LET in_hour == hour_scrobbles(s, h)
        hour_artists == CounterOf(ArtistKeys(in_hour))
        hour_tracks == CounterOf(TrackKeys(in_hour))
    IN  [total |-> Len(in_hour),
         top_artist |-> IF hour_artists # <<>>
                        THEN most_common(hour_artists, 1)[1] ELSE <<>>,
         top_track |-> IF hour_tracks # <<>>
                       THEN LET t == most_common(hour_tracks, 1)[1]
                            IN  <<t[1][1], t[1][2], t[2]>>
                       ELSE <<>>]

\* Mutant of get_hourly_top: only the hours that have plays get a key.
HasPlays(entry) == entry[2].total > 0

get_hourly_top_SeenHours(s) ==
    IF s = <<>> THEN None
    ELSE Some(SelectSeq([h \in 1..24 |-> <<hour_str(h - 1), hourly_info(s, h - 1)>>],
                        HasPlays))

get_hourly_top(s) ==
    IF s = <<>> THEN None
    ELSE Some([h \in 1..24 |-> <<hour_str(h - 1), hourly_info(s, h - 1)>>])

(***************************************************************************)
(* The state machine: the loader hands over a scrobble list, one record at *)
(* a time, and the caller runs analyzer operations on the list loaded so   *)
(* far. last is the latest call: its name, arguments and returned value.   *)
(***************************************************************************)
MaxScrobbles == 3

Scrobble(artist, album, track, utc_time) ==
    [artist |-> artist, album |-> album, track |-> track, utc_time |-> utc_time,
     url |-> "", images |-> <<>>]

\* Date texts: a day before a gap, three consecutive days across the end of
\* February, a date that does not exist and the empty string. An offset of
\* +60 minutes moves D1 to 27 Feb (closing the gap), one of -60 minutes moves
\* D3 to 28 Feb (the local day of D2).
D1 == <<26, "Feb", 2026, 23, 30>>
D2 == <<28, "Feb", 2026, 12, 0>>
D3 == <<1, "Mar", 2026, 0, 30>>
D4 == <<2, "Mar", 2026, 12, 0>>
BadDate == <<30, "Feb", 2026, 12, 0>>
EmptyText == <<>>

Offsets == {-60, 0, 60}

TopNs == {1, 2}

StreakEvents ==
    {Scrobble("A1", "L1", "T1", t) : t \in {D1, D2, D3, D4, BadDate}}
    \cup {Scrobble("A1", "L1", "T2", D3),
          Scrobble("A2", "L2", "T3", D2), Scrobble("A2", "", "T3", D4),
          Scrobble("", "L1", "T1", D2), Scrobble("A1", "L1", "", D1)}

RankEvents ==
    {Scrobble("A1", "L1", "T1", D1), Scrobble("A1", "L1", "T1", D2),
     Scrobble("A2", "L2", "T2", D2), Scrobble("A2", "L2", "T2", D4),
     Scrobble("A3", "L3", "T3", D3),
     Scrobble("A1", "L1", "T1", BadDate), Scrobble("A2", "L2", "T2", EmptyText),
     Scrobble("", "L1", "T1", D2), Scrobble("A1", "", "", D2)}

\* (from_date, to_date) arguments: absent, one instant, one-sided, a later
\* window, empty strings, and a from_date that is no date.
NoRange == <<None, None>>

DateRanges ==
    {NoRange,
     <<Some(D2), Some(D2)>>, <<Some(D2), None>>, <<None, Some(D2)>>,
     <<Some(D3), Some(D4)>>,
     <<Some(EmptyText), Some(EmptyText)>>, <<Some(BadDate), Some(D2)>>}

NoCall == [op |-> "none", n |-> 0, from_date |-> None, to_date |-> None, result |-> None]

Call(op, n, from_date, to_date, result) ==
    [op |-> op, n |-> n, from_date |-> from_date, to_date |-> to_date, result |-> result]

Init ==
    /\ scrobbles = <<>>
    /\ utcoffset \in Offsets
    /\ last = NoCall

\* ScrobblesLoader.load_file: one more Scrobble of the file. The list is
\* complete before the first analyzer call (main loads, then analyzes).
Load(e) ==
    /\ last = NoCall
    /\ Len(scrobbles) < MaxScrobbles
    /\ scrobbles' = Append(scrobbles, e)
    /\ last' = NoCall
    /\ UNCHANGED utcoffset

LoadStreak == \E e \in StreakEvents : Load(e)

\* The caller is done with the value returned and may call again.
Discard ==
    /\ last # NoCall
    /\ last' = NoCall
    /\ UNCHANGED <<scrobbles, utcoffset>>

TopArtists(ranges) ==
    /\ last = NoCall
    /\ \E n \in TopNs : \E r \in ranges :
          last' = Call("get_top_artists", n, r[1], r[2],
                       get_top_artists(scrobbles, n, r[1], r[2]))
    /\ UNCHANGED <<scrobbles, utcoffset>>

TopAlbums(ranges) ==
    /\ last = NoCall
    /\ \E n \in TopNs : \E r \in ranges :
          last' = Call("get_top_albums", n, r[1], r[2],
                       get_top_albums(scrobbles, n, r[1], r[2]))
    /\ UNCHANGED <<scrobbles, utcoffset>>

TopTracks(ranges) ==
    /\ last = NoCall
    /\ \E n \in TopNs : \E r \in ranges :
          last' = Call("get_top_tracks", n, r[1], r[2],
                       get_top_tracks(scrobbles, n, r[1], r[2]))
    /\ UNCHANGED <<scrobbles, utcoffset>>

TopTracksByConsecutiveDays ==
    /\ last = NoCall
    /\ \E n \in TopNs :
          last' = Call("get_top_tracks_by_consecutive_days", n, None, None,
                       get_top_tracks_by_consecutive_days(scrobbles, n))
    /\ UNCHANGED <<scrobbles, utcoffset>>

TopArtistsByConsecutiveDays ==
    /\ last = NoCall
    /\ \E n \in TopNs :
          last' = Call("get_top_artists_by_consecutive_days", n, None, None,
                       get_top_artists_by_consecutive_days(scrobbles, n))
    /\ UNCHANGED <<scrobbles, utcoffset>>

TopAlbumsByConsecutiveDays ==
    /\ last = NoCall
    /\ \E n \in TopNs :
          last' = Call("get_top_albums_by_consecutive_days", n, None, None,
                       get_top_albums_by_consecutive_days(scrobbles, n))
    /\ UNCHANGED <<scrobbles, utcoffset>>

\* The streak finders, and the track ranker without a date filter, on lists
\* whose events spread over days.
NextStreak ==
    \/ LoadStreak
    \/ TopTracksByConsecutiveDays
    \/ TopArtistsByConsecutiveDays
    \/ TopAlbumsByConsecutiveDays
    \/ TopTracks({NoRange})
    \/ Discard

SpecStreak == Init /\ [][NextStreak]_vars

\* The rankers under date filters, on lists with ties, unparsable timestamps
\* and empty fields.
LoadRank == \E e \in RankEvents : Load(e)

NextRank ==
    \/ LoadRank
    \/ TopArtists(DateRanges)
    \/ TopAlbums(DateRanges)
    \/ TopTracks(DateRanges)
    \/ Discard

\* The rankers never convert to local time: one offset is enough.
InitRank ==
    /\ scrobbles = <<>>
    /\ utcoffset = 0
    /\ last = NoCall

SpecRank == InitRank /\ [][NextRank]_vars

MostPlayedTrackPerDay ==
    /\ last = NoCall
    /\ last' = Call("get_most_played_track_per_day", 0, None, None,
                    get_most_played_track_per_day(scrobbles))
    /\ UNCHANGED <<scrobbles, utcoffset>>

TopTracksByPeakPlays ==
    /\ last = NoCall
    /\ \E n \in TopNs :
          last' = Call("get_top_tracks_by_peak_plays", n, None, None,
                       get_top_tracks_by_peak_plays(scrobbles, n))
    /\ UNCHANGED <<scrobbles, utcoffset>>

HourlyTop ==
    /\ last = NoCall
    /\ last' = Call("get_hourly_top", 0, None, None, get_hourly_top(scrobbles))
    /\ UNCHANGED <<scrobbles, utcoffset>>

\* The operations that return keys taken from the events' fields: the
\* rankers without a date filter, the day aggregators and the hourly profile.
NextDay ==
    \/ LoadStreak
    \/ TopArtists({NoRange})
    \/ TopAlbums({NoRange})
    \/ TopTracks({NoRange})
    \/ MostPlayedTrackPerDay
    \/ TopTracksByPeakPlays
    \/ HourlyTop
    \/ Discard

SpecDay == Init /\ [][NextDay]_vars

\* (artist, track) arguments of the per-track operations.
TrackArgs == {<<"A1", "T1">>, <<"A1", "T2">>, <<"A2", "T3">>, <<"", "T1">>}

\* A call that names a track.
TrackCall(op, artist, track, result) ==
    [op |-> op, n |-> 0, from_date |-> None, to_date |-> None, result |-> result,
     artist |-> artist, track |-> track]

PeakDayForTrack ==
    /\ last = NoCall
    /\ \E a \in TrackArgs :
          last' = TrackCall("get_peak_day_for_track", a[1], a[2],
                            get_peak_day_for_track(scrobbles, a[1], a[2]))
    /\ UNCHANGED <<scrobbles, utcoffset>>

AllDaysForTrack ==
    /\ last = NoCall
    /\ \E a \in TrackArgs :
          last' = TrackCall("get_all_days_for_track", a[1], a[2],
                            get_all_days_for_track(scrobbles, a[1], a[2]))
    /\ UNCHANGED <<scrobbles, utcoffset>>

TopDaysOverall ==
    /\ last = NoCall
    /\ \E n \in TopNs :
          last' = Call("get_top_days_overall", n, None, None,
                       get_top_days_overall(scrobbles, n))
    /\ UNCHANGED <<scrobbles, utcoffset>>

TopDaysOverallByArtistCount ==
    /\ last = NoCall
    /\ \E n \in TopNs :
          last' = Call("get_top_days_overall_by_artist_count", n, None, None,
                       get_top_days_overall_by_artist_count(scrobbles, n))
    /\ UNCHANGED <<scrobbles, utcoffset>>

TopDaysOverallByTrackCount ==
    /\ last = NoCall
    /\ \E n \in TopNs :
          last' = Call("get_top_days_overall_by_track_count", n, None, None,
                       get_top_days_overall_by_track_count(scrobbles, n))
    /\ UNCHANGED <<scrobbles, utcoffset>>

\* The hourly profile on lists whose events spread over hours and days.
NextHour ==
    \/ LoadStreak
    \/ HourlyTop
    \/ Discard

SpecHour == Init /\ [][NextHour]_vars

\* The three day rankings.
NextTopDays ==
    \/ LoadStreak
    \/ TopDaysOverall
    \/ TopDaysOverallByArtistCount
    \/ TopDaysOverallByTrackCount
    \/ Discard

SpecTopDays == Init /\ [][NextTopDays]_vars

\* The per-track day operations on lists where tracks share days, one track
\* has plays on several days and one play has an unparsable timestamp.
TrackDayEvents ==
    {Scrobble("A1", "L1", "T1", t) : t \in {D2, D3, D4, BadDate}}
    \cup {Scrobble("A1", "L1", "T2", D3), Scrobble("A2", "L2", "T3", D2)}

LoadTrackDay == \E e \in TrackDayEvents : Load(e)

NextTrackDay ==
    \/ LoadTrackDay
    \/ PeakDayForTrack
    \/ AllDaysForTrack
    \/ MostPlayedTrackPerDay
    \/ TopTracksByPeakPlays
    \/ Discard

SpecTrackDay == Init /\ [][NextTrackDay]_vars

\* Every operation, as calculate_summary_for_scrobbles runs them on one
\* list, on lists of parsable and unparsable plays.
SummaryEvents ==
    {Scrobble("A1", "L1", "T1", t) : t \in {D2, D3, BadDate, EmptyText}}
    \cup {Scrobble("A2", "L2", "T3", D2)}

LoadSummary == \E e \in SummaryEvents : Load(e)

Next ==
    \/ LoadSummary
    \/ TopArtists({NoRange, <<Some(D2), Some(D2)>>})
    \/ TopAlbums({NoRange, <<Some(D2), Some(D2)>>})
    \/ TopTracks({NoRange, <<Some(D2), Some(D2)>>})
    \/ PeakDayForTrack
    \/ AllDaysForTrack
    \/ TopDaysOverall
    \/ TopDaysOverallByArtistCount
    \/ TopDaysOverallByTrackCount
    \/ MostPlayedTrackPerDay
    \/ TopTracksByPeakPlays
    \/ TopTracksByConsecutiveDays
    \/ TopArtistsByConsecutiveDays
    \/ TopAlbumsByConsecutiveDays
    \/ HourlyTop
    \/ Discard

Spec == Init /\ [][Next]_vars

(***************************************************************************)
(* Reference notions the claims are stated with                            *)
(***************************************************************************)
StreakOps ==
    {"get_top_tracks_by_consecutive_days",
     "get_top_artists_by_consecutive_days",
     "get_top_albums_by_consecutive_days"}

\* The local day (an ordinal) an event falls on, when its timestamp converts.
RefLocalDay(e) ==
    LET dt == _utc_to_local(e.utc_time)
    IN  IF dt = None THEN None ELSE Some(dt[1] \div 1440)

\* The grouping key of an event under a streak operation.
StreakKey(op, e) ==
    IF op = "get_top_artists_by_consecutive_days" THEN e.artist
    ELSE IF op = "get_top_albums_by_consecutive_days" THEN <<e.artist, e.album>>
    ELSE <<e.artist, e.track>>

\* The distinct local days on which key has an event of the list s.
KeyDaySet(op, key, s) ==
    {RefLocalDay(e)[1] :
        e \in {x \in Range(s) : RefLocalDay(x) # None /\ StreakKey(op, x) = key}}

HasRunFrom(S, d, k) == \A i \in 0..(k - 1) : (d + i) \in S

\* The length of the longest run of consecutive days in S.
LongestRunLen(S) ==
    CHOOSE k \in 0..Cardinality(S) :
        /\ k > 0 => \E d \in S : HasRunFrom(S, d, k)
        /\ ~ \E d \in S : HasRunFrom(S, d, k + 1)

Unbroken(S) == \A a \in S : \A b \in S : \A d \in a..b : d \in S

\* The ordinal of the day a label "DD Mon YYYY" names.
LabelOrd(label) == ymd2ord(label[3], MonthNumber(label[2]), label[1])

StreakCalled == last.op \in StreakOps /\ last.result # None

Entries == IF StreakCalled THEN last.result[1] ELSE <<>>

(***************************************************************************)
(* Claims on the streak finders (SpecStreak)                               *)
(***************************************************************************)
\* C1: for each of the three consecutive-days operations and every key in
\* the result, the reported length is the length of the longest run of
\* consecutive calendar days among the distinct local days on which the key
\* has an event, and start_day..end_day are the first and last day of a run
\* of that length.
C1_StreakIsLongestRun ==
    \A i \in 1..Len(Entries) :
        LET entry == Entries[i]
            S == KeyDaySet(last.op, entry[1], scrobbles)
            a == LabelOrd(entry[3])
            b == LabelOrd(entry[4])
        IN  /\ entry[2] = LongestRunLen(S)
            /\ b - a + 1 = entry[2]
            /\ \A d \in a..b : d \in S

\* A track whose days are a run of two and, after a gap, a third day: the
\* reported streak is the run of two.
C1_Witness ==
    /\ last.op = "get_top_tracks_by_consecutive_days"
    /\ \E i \in 1..Len(Entries) :
          /\ Entries[i][2] = 2
          /\ Cardinality(KeyDaySet(last.op, Entries[i][1], scrobbles)) = 3

\* C2: every streak entry has length >= 1 and end_day - start_day (in days)
\* = length - 1; a key whose events all fall on one local day has length 1
\* and start_day = end_day.
C2_StreakSpan ==
    \A i \in 1..Len(Entries) :
        LET entry == Entries[i]
            S == KeyDaySet(last.op, entry[1], scrobbles)
        IN  /\ entry[2] >= 1
            /\ LabelOrd(entry[4]) - LabelOrd(entry[3]) = entry[2] - 1
            /\ Cardinality(S) = 1 => (entry[2] = 1 /\ entry[3] = entry[4])

\* An artist with two events on one local day (different UTC days).
C2_Witness ==
    /\ last.op = "get_top_artists_by_consecutive_days"
    /\ \E i \in 1..Len(Entries) :
          /\ Entries[i][2] = 1
          /\ Entries[i][3] = Entries[i][4]
          /\ \E x \in Range(scrobbles) : \E y \in Range(scrobbles) :
                /\ x.artist = Entries[i][1] /\ y.artist = Entries[i][1]
                /\ x.utc_time # y.utc_time
                /\ RefLocalDay(x) # None /\ RefLocalDay(x) = RefLocalDay(y)

\* C3: for every returned key, the streak length is at most the number of
\* distinct local days of the key, and equals it exactly when those days
\* form one unbroken run.
C3_StreakMonotone ==
    \A i \in 1..Len(Entries) :
        LET entry == Entries[i]
            S == KeyDaySet(last.op, entry[1], scrobbles)
        IN  /\ entry[2] <= Cardinality(S)
            /\ (entry[2] = Cardinality(S)) <=> Unbroken(S)

\* Both cases in one album result: an album on an unbroken run of two days
\* or more, and a call whose key has a gap.
C3_Witness ==
    /\ last.op = "get_top_albums_by_consecutive_days"
    /\ \E i \in 1..Len(Entries) :
          LET S == KeyDaySet(last.op, Entries[i][1], scrobbles)
          IN  Cardinality(S) = 3 /\ Entries[i][2] < 3

(***************************************************************************)
(* Reference notions for the rankers                                       *)
(***************************************************************************)
RankOps == {"get_top_artists", "get_top_albums", "get_top_tracks"}

RemoveAt(s, i) == SubSeq(s, 1, i - 1) \o SubSeq(s, i + 1, Len(s))

\* The key a ranker groups an event under.
RankKey(op, e) ==
    IF op = "get_top_artists" THEN e.artist
    ELSE IF op = "get_top_albums" THEN <<e.artist, e.album>>
    ELSE <<e.artist, e.track>>

\* The field whose emptiness keeps an event out of a ranker.
RankField(op, e) ==
    IF op = "get_top_artists" THEN e.artist
    ELSE IF op = "get_top_albums" THEN e.album
    ELSE e.track

Absent(arg) == arg = None \/ arg[1] = EmptyText

ValidBound(arg) == ~Absent(arg) /\ _parse_date(arg[1]) # None

\* Whether the date filter lets an event through: everything when no bound
\* is given; otherwise the events with a parsable timestamp t, from <= t
\* for a from_date that is a date, t <= to for a to_date that is a date.
Eligible(e, from_date, to_date) ==
    \/ Absent(from_date) /\ Absent(to_date)
    \/ LET t == _parse_date(e.utc_time)
       IN  /\ t # None
           /\ ValidBound(from_date) => _parse_date(from_date[1])[1] <= t[1]
           /\ ValidBound(to_date) => t[1] <= _parse_date(to_date[1])[1]

\* The positions of the events a ranker call counts under key.
Counted(op, key, s, from_date, to_date) ==
    {i \in 1..Len(s) :
        /\ RankField(op, s[i]) # ""
        /\ RankKey(op, s[i]) = key
        /\ Eligible(s[i], from_date, to_date)}

\* The keys a ranker call has something to count under.
CountedKeys(op, s, from_date, to_date) ==
    {RankKey(op, s[i]) :
        i \in {j \in 1..Len(s) : /\ RankField(op, s[j]) # ""
                                  /\ Eligible(s[j], from_date, to_date)}}

RankCount(key) ==
    Cardinality(Counted(last.op, key, scrobbles, last.from_date, last.to_date))

RankKeys == CountedKeys(last.op, scrobbles, last.from_date, last.to_date)

\* Where key is first seen among the events the call counts.
FirstSeen(key) ==
    CHOOSE i \in Counted(last.op, key, scrobbles, last.from_date, last.to_date) :
        \A j \in Counted(last.op, key, scrobbles, last.from_date, last.to_date) : i <= j

RankCalled == last.op \in RankOps

Ranked == IF RankCalled THEN last.result ELSE <<>>

RankedKeys == {Ranked[i][1] : i \in 1..Len(Ranked)}

Min2(a, b) == IF a < b THEN a ELSE b

\* The bounds of the call are given as dates (each None or a valid date, one
\* at least given).
BoundsGiven ==
    /\ RankCalled
    /\ last.from_date # None \/ last.to_date # None
    /\ last.from_date # None => ValidBound(last.from_date)
    /\ last.to_date # None => ValidBound(last.to_date)

(***************************************************************************)
(* Claims on the rankers (SpecRank) and on streaks against rankings        *)
(***************************************************************************)
\* An event at position i repeats its track on a local day: an earlier
\* event (before) or any other event of the list carries the same
\* (artist, track) on the same local day.
SameDayRepeat(i, before) ==
    /\ scrobbles[i].track # ""
    /\ RefLocalDay(scrobbles[i]) # None
    /\ \E j \in 1..Len(scrobbles) :
          /\ IF before THEN j < i ELSE j # i
          /\ scrobbles[j].artist = scrobbles[i].artist
          /\ scrobbles[j].track = scrobbles[i].track
          /\ RefLocalDay(scrobbles[j]) = RefLocalDay(scrobbles[i])

\* The list of an Optional list, None read as no entries.
ListOf(res) == IF res = None THEN <<>> ELSE res[1]

CountIn(ranking, key) ==
    IF \E k \in 1..Len(ranking) : ranking[k][1] = key
    THEN ranking[CHOOSE k \in 1..Len(ranking) : ranking[k][1] = key][2]
    ELSE 0

\* C4: streaks count distinct days, rankings count raw events. One more
\* event for an (artist, track) on a local day on which the track already
\* has an event leaves the result of get_top_tracks_by_consecutive_days as
\* it is without that event (the same list when the event comes after the
\* one it repeats, the same entries wherever it stands), and raises the
\* track's count in get_top_tracks by exactly one.
C4_SameDayPlay ==
    /\ last.op = "get_top_tracks_by_consecutive_days" =>
          \A i \in 1..Len(scrobbles) :
             /\ SameDayRepeat(i, TRUE) =>
                   last.result =
                     get_top_tracks_by_consecutive_days(RemoveAt(scrobbles, i), last.n)
             /\ (SameDayRepeat(i, FALSE) /\ Len(ListOf(last.result)) < last.n) =>
                   Range(ListOf(last.result)) =
                     Range(ListOf(get_top_tracks_by_consecutive_days(
                                    RemoveAt(scrobbles, i), last.n)))
    /\ last.op = "get_top_tracks" =>
          \A i \in 1..Len(scrobbles) :
             SameDayRepeat(i, FALSE) =>
                LET key == <<scrobbles[i].artist, scrobbles[i].track>>
                    without == get_top_tracks(RemoveAt(scrobbles, i),
                                              Len(scrobbles), None, None)
                IN  /\ CountIn(without, key) >= 1
                    /\ key \in RankedKeys =>
                          CountIn(Ranked, key) = CountIn(without, key) + 1
                    /\ Len(Ranked) < last.n => key \in RankedKeys

\* A track played on two consecutive local days, twice on one of them at
\* different UTC times: a streak of 2 and a count of 3.
C4_Witness ==
    /\ \E i \in 1..Len(scrobbles) :
          /\ SameDayRepeat(i, TRUE)
          /\ \E j \in 1..(i - 1) : scrobbles[j].utc_time # scrobbles[i].utc_time
                                   /\ scrobbles[j].track = scrobbles[i].track
                                   /\ RefLocalDay(scrobbles[j]) = RefLocalDay(scrobbles[i])
    /\ \/ /\ last.op = "get_top_tracks"
          /\ \E k \in 1..Len(Ranked) : Ranked[k][2] = 3
       \/ /\ last.op = "get_top_tracks_by_consecutive_days"
          /\ last.result # None
          /\ \E k \in 1..Len(last.result[1]) : last.result[1][k][2] = 2

\* C5: a ranker returns each key at most once, paired with exactly the
\* number of (filtered) events carrying that key; the list is in
\* non-increasing order of count, and no key left out has a count greater
\* than a returned key.
C5_RankCounts ==
    /\ \A i \in 1..Len(Ranked) : \A j \in 1..Len(Ranked) :
          /\ i # j => Ranked[i][1] # Ranked[j][1]
          /\ i < j => Ranked[i][2] >= Ranked[j][2]
    /\ \A i \in 1..Len(Ranked) :
          /\ Ranked[i][1] \in RankKeys
          /\ Ranked[i][2] = RankCount(Ranked[i][1])
          /\ \A key \in RankKeys \ RankedKeys : RankCount(key) <= Ranked[i][2]

\* A filtered ranking with a count of 2 ahead of a count of 1 whose key was
\* seen first.
C5_Witness ==
    /\ BoundsGiven
    /\ Len(Ranked) = 2
    /\ Ranked[1][2] = 2 /\ Ranked[2][2] = 1
    /\ FirstSeen(Ranked[2][1]) < FirstSeen(Ranked[1][1])

\* C6: keys with equal counts appear in the order in which they were first
\* seen in the (filtered) event list, and a key left out was first seen
\* after every returned key of the same count; so with n = 1 and several
\* keys tied for the highest count, the key returned is the one seen first.
C6_TiesFirstSeen ==
    /\ \A i \in 1..Len(Ranked) : \A j \in 1..Len(Ranked) :
          (i < j /\ Ranked[i][2] = Ranked[j][2]) =>
              FirstSeen(Ranked[i][1]) < FirstSeen(Ranked[j][1])
    /\ \A i \in 1..Len(Ranked) : \A key \in RankKeys \ RankedKeys :
          RankCount(key) = Ranked[i][2] =>
              FirstSeen(Ranked[i][1]) < FirstSeen(key)
    /\ (RankCalled /\ last.n = 1 /\ RankKeys # {}) =>
          /\ Len(Ranked) = 1
          /\ \A key \in RankKeys :
                /\ RankCount(key) <= Ranked[1][2]
                /\ RankCount(key) = Ranked[1][2] =>
                      FirstSeen(Ranked[1][1]) <= FirstSeen(key)

\* n = 1 with three keys tied at count 1.
C6_Witness ==
    /\ RankCalled
    /\ last.n = 1
    /\ Len(Ranked) = 1
    /\ Cardinality({key \in RankKeys : RankCount(key) = Ranked[1][2]}) = 3

\* C7: for every positive n the length of the list returned is
\* min(n, number of distinct non-excluded keys).
C7_TopNLength ==
    RankCalled => Len(Ranked) = Min2(last.n, Cardinality(RankKeys))

\* Three keys and n = 2: the list is cut to two entries.
C7_Witness ==
    /\ RankCalled
    /\ last.n = 2
    /\ Len(Ranked) = 2
    /\ Cardinality(RankKeys) = 3

\* from <= t <= to for the parsed timestamp t of an event.
InWindow(e) ==
    LET t == _parse_date(e.utc_time)
    IN  /\ t # None
        /\ last.from_date # None => _parse_date(last.from_date[1])[1] <= t[1]
        /\ last.to_date # None => t[1] <= _parse_date(last.to_date[1])[1]

WindowCount(key) ==
    Cardinality({i \in 1..Len(scrobbles) :
                    /\ RankField(last.op, scrobbles[i]) # ""
                    /\ RankKey(last.op, scrobbles[i]) = key
                    /\ InWindow(scrobbles[i])})

\* C8: when a from/to bound is given, the rankers count exactly the events
\* whose parsed UTC timestamp t satisfies from <= t <= to, both ends
\* inclusive, and drop every event whose timestamp is unparsable; for a
\* single-event list, from = to = the event's timestamp returns its key
\* with count 1 and a range not containing it returns the empty list.
C8_DateFilter ==
    BoundsGiven =>
        /\ \A i \in 1..Len(Ranked) : Ranked[i][2] = WindowCount(Ranked[i][1])
        /\ \A i \in 1..Len(scrobbles) :
              (/\ RankField(last.op, scrobbles[i]) # ""
               /\ InWindow(scrobbles[i])
               /\ Len(Ranked) < last.n) => RankKey(last.op, scrobbles[i]) \in RankedKeys
        /\ Len(scrobbles) = 1 =>
              IF InWindow(scrobbles[1]) /\ RankField(last.op, scrobbles[1]) # ""
              THEN Ranked = << <<RankKey(last.op, scrobbles[1]), 1>> >>
              ELSE Ranked = <<>>

\* A single event filtered with from = to = its own timestamp.
C8_Witness ==
    /\ BoundsGiven
    /\ Len(scrobbles) = 1
    /\ last.from_date = Some(scrobbles[1].utc_time)
    /\ last.to_date = Some(scrobbles[1].utc_time)
    /\ Len(Ranked) = 1 /\ Ranked[1][2] = 1

\* The number of events of the list carrying key, whatever their timestamp.
RawCount(key) ==
    Cardinality({i \in 1..Len(scrobbles) :
                    /\ RankField(last.op, scrobbles[i]) # ""
                    /\ RankKey(last.op, scrobbles[i]) = key})

\* C9: when both from and to are absent, the rankers count every event of
\* the input, events with an empty or unparsable timestamp included.
C9_NoFilterKeepsAll ==
    (RankCalled /\ last.from_date = None /\ last.to_date = None) =>
        /\ \A i \in 1..Len(Ranked) : Ranked[i][2] = RawCount(Ranked[i][1])
        /\ \A i \in 1..Len(scrobbles) :
              (RankField(last.op, scrobbles[i]) # "" /\ Len(Ranked) < last.n)
                  => RankKey(last.op, scrobbles[i]) \in RankedKeys

\* An unfiltered call on events with an empty and with an unparsable
\* timestamp only, both counted.
C9_Witness ==
    /\ RankCalled /\ last.from_date = None /\ last.to_date = None
    /\ Len(scrobbles) = 2
    /\ scrobbles[1].utc_time = EmptyText
    /\ scrobbles[2].utc_time = BadDate
    /\ Len(Ranked) = 2

(***************************************************************************)
(* C10                                                                     *)
(***************************************************************************)
\* The keys a call returned, as tuples of their text components.
ReturnedKeys ==
    IF last.op = "get_top_artists"
    THEN {<<last.result[i][1]>> : i \in DOMAIN last.result}
    ELSE IF last.op \in {"get_top_albums", "get_top_tracks"}
    THEN {last.result[i][1] : i \in DOMAIN last.result}
    ELSE IF last.op = "get_most_played_track_per_day"
    THEN {<<ListOf(last.result)[i][2][1], ListOf(last.result)[i][2][2]>> :
             i \in DOMAIN ListOf(last.result)}
    ELSE IF last.op = "get_top_tracks_by_peak_plays"
    THEN {ListOf(last.result)[i][1] : i \in DOMAIN ListOf(last.result)}
    ELSE IF last.op = "get_hourly_top"
    THEN UNION {
           (IF ListOf(last.result)[i][2].top_artist # <<>>
            THEN {<<ListOf(last.result)[i][2].top_artist[1]>>} ELSE {})
           \cup
           (IF ListOf(last.result)[i][2].top_track # <<>>
            THEN {<<ListOf(last.result)[i][2].top_track[1],
                    ListOf(last.result)[i][2].top_track[2]>>} ELSE {}) :
           i \in DOMAIN ListOf(last.result)}
    ELSE {}

\* C10: no key returned by a ranker, by get_most_played_track_per_day, by
\* get_top_tracks_by_peak_plays or in the top fields of get_hourly_top has
\* an empty-string component, because events with an empty artist, album
\* or track name are left out of what groups by that field.
C10_NoEmptyComponent ==
    \A key \in ReturnedKeys : \A i \in DOMAIN key : key[i] # ""

(***************************************************************************)
(* Claims on events that cannot be placed in time, and on the empty list   *)
(***************************************************************************)
TopDayOps ==
    {"get_top_days_overall", "get_top_days_overall_by_artist_count",
     "get_top_days_overall_by_track_count"}

TrackOps == {"get_peak_day_for_track", "get_all_days_for_track"}

\* The operations whose results are bucketed by local day or hour.
TimeOps ==
    StreakOps \cup TopDayOps \cup TrackOps
    \cup {"get_most_played_track_per_day", "get_top_tracks_by_peak_plays",
          "get_hourly_top"}

\* The value the operation of call c returns on the list s.
ResultOn(c, s) ==
    CASE c.op = "get_top_tracks_by_consecutive_days" ->
            get_top_tracks_by_consecutive_days(s, c.n)
      [] c.op = "get_top_artists_by_consecutive_days" ->
            get_top_artists_by_consecutive_days(s, c.n)
      [] c.op = "get_top_albums_by_consecutive_days" ->
            get_top_albums_by_consecutive_days(s, c.n)
      [] c.op = "get_top_days_overall" -> get_top_days_overall(s, c.n)
      [] c.op = "get_top_days_overall_by_artist_count" ->
            get_top_days_overall_by_artist_count(s, c.n)
      [] c.op = "get_top_days_overall_by_track_count" ->
            get_top_days_overall_by_track_count(s, c.n)
      [] c.op = "get_peak_day_for_track" ->
            get_peak_day_for_track(s, c.artist, c.track)
      [] c.op = "get_all_days_for_track" ->
            get_all_days_for_track(s, c.artist, c.track)
      [] c.op = "get_most_played_track_per_day" ->
            get_most_played_track_per_day(s)
      [] c.op = "get_top_tracks_by_peak_plays" ->
            get_top_tracks_by_peak_plays(s, c.n)
      [] c.op = "get_hourly_top" -> get_hourly_top(s)

\* The timestamp of e is text of the form "DD Mon YYYY, HH:MM" naming an
\* instant.
Placed(e) == strptime(e.utc_time) # None

\* C11: an event whose timestamp is empty or not of the form
\* "DD Mon YYYY, HH:MM" makes no operation raise and adds to no day bucket,
\* streak day set or hourly bucket: every day, streak and hourly result is
\* the result on the list with such events removed.
C11_UnplacedIgnored ==
    last.op \in TimeOps =>
        last.result = ResultOn(last, SelectSeq(scrobbles, Placed))

\* No data: None, or an empty list or mapping.
NoData(result) == result = None \/ result = Some(<<>>)

\* C12: on the empty event list no operation raises; get_top_artists,
\* get_top_albums and get_top_tracks return the empty list, and every day,
\* peak, streak, per-day-track and hourly operation returns an absent or
\* empty result, which carries no entry and so no count of zero.
C12_EmptyList ==
    (scrobbles = <<>> /\ last.op # "none") =>
        IF last.op \in RankOps THEN last.result = <<>> ELSE NoData(last.result)

\* get_top_days_overall called on the empty list.
C12_Witness ==
    /\ scrobbles = <<>>
    /\ last.op = "get_top_days_overall"
    /\ last.result = None

(***************************************************************************)
(* Claims on the hourly profile (SpecHour)                                 *)
(***************************************************************************)
Digits == <<"0", "1", "2", "3", "4", "5", "6", "7", "8", "9">>

\* The decimal numeral of h, 0 <= h <= 99.
Numeral(h) ==
    IF h < 10 THEN Digits[h + 1]
    ELSE Digits[(h \div 10) + 1] \o Digits[(h % 10) + 1]

\* The local hour of day of an event whose timestamp converts.
RefLocalHour(e) == (_utc_to_local(e.utc_time)[1] % 1440) \div 60

\* The events of the list that fall in local hour h, in list order.
InHour(h) ==
    LET AtH(e) == _utc_to_local(e.utc_time) # None /\ RefLocalHour(e) = h
    IN  SelectSeq(scrobbles, AtH)

HourlyCalled == last.op = "get_hourly_top"

\* The profile returned: its <<key, info>> items.
Profile == ListOf(last.result)

\* The result is a profile with exactly the keys "0".."23", once each, and
\* an hour without events has total 0 and no top entry.
FullProfile ==
    /\ last.result # None
    /\ Len(Profile) = 24
    /\ \A h \in 0..23 :
          \E i \in 1..24 :
             /\ Profile[i][1] = Numeral(h)
             /\ InHour(h) = <<>> =>
                   /\ Profile[i][2].total = 0
                   /\ Profile[i][2].top_artist = <<>>
                   /\ Profile[i][2].top_track = <<>>

\* C13 as stated: the result of get_hourly_top has all 24 hour keys
\* "0".."23" and no other key for every event list, the list of zero events
\* included; an hour with no events has total 0 and no top entries.
C13_AllHoursAlways == HourlyCalled => FullProfile

\* C13 amended: for every event list of at least one event the result of
\* get_hourly_top has all 24 hour keys "0".."23" and no other key, an hour
\* with no events having total 0 and no top entries; for the list of zero
\* events the result is None.
C13_AllHours ==
    HourlyCalled =>
        IF scrobbles = <<>> THEN last.result = None ELSE FullProfile

\* A profile with an hour of plays and an hour of none.
C13_Witness ==
    /\ HourlyCalled
    /\ last.result # None
    /\ \E i \in 1..Len(Profile) : Profile[i][2].total = 2
    /\ \E i \in 1..Len(Profile) : Profile[i][2].total = 0

\* The positions in the list of the events that fall in local hour h.
HourPositions(h) ==
    {i \in 1..Len(scrobbles) :
        /\ _utc_to_local(scrobbles[i].utc_time) # None
        /\ RefLocalHour(scrobbles[i]) = h}

ArtistPositions(h, artist) ==
    {i \in HourPositions(h) : scrobbles[i].artist = artist}

TrackPositions(h, key) ==
    {i \in HourPositions(h) : <<scrobbles[i].artist, scrobbles[i].track>> = key}

\* The artists, and the (artist, track) pairs of a named track, of hour h.
HourArtists(h) == {scrobbles[i].artist : i \in HourPositions(h)} \ {""}

HourTracks(h) ==
    {<<scrobbles[i].artist, scrobbles[i].track>> :
        i \in {j \in HourPositions(h) : scrobbles[j].track # ""}}

FirstOf(positions) == CHOOSE i \in positions : \A j \in positions : i <= j

\* key is the top-1 of keys: no key has more positions, and none with as
\* many is seen before it.
IsTop1(key, keys, Pos(_)) ==
    /\ key \in keys
    /\ \A other \in keys :
          \/ Cardinality(Pos(other)) < Cardinality(Pos(key))
          \/ /\ Cardinality(Pos(other)) = Cardinality(Pos(key))
             /\ FirstOf(Pos(key)) <= FirstOf(Pos(other))

RECURSIVE SumTotals(_)
SumTotals(profile) ==
    IF profile = <<>> THEN 0 ELSE Head(profile)[2].total + SumTotals(Tail(profile))

\* C14: for a non-empty event list and every hour h, the total of h is the
\* number of events whose local hour of day is h (the totals add up to the
\* number of events with a resolvable local instant), and top_artist and
\* top_track of h are the top-1 entries (highest count, first seen on ties)
\* of the artist counts and the (artist, track) counts over the events of
\* that hour that name an artist, respectively a track.
C14_HourlyCounts ==
    (HourlyCalled /\ scrobbles # <<>>) =>
        /\ SumTotals(Profile) = Len(SelectSeq(scrobbles, Placed))
        /\ \A h \in 0..23 :
              LET info == Profile[h + 1][2]
                  OfArtist(a) == ArtistPositions(h, a)
                  OfTrack(k) == TrackPositions(h, k)
              IN  /\ Profile[h + 1][1] = Numeral(h)
                  /\ info.total = Cardinality(HourPositions(h))
                  /\ IF HourArtists(h) = {} THEN info.top_artist = <<>>
                     ELSE /\ Len(info.top_artist) = 2
                          /\ IsTop1(info.top_artist[1], HourArtists(h), OfArtist)
                          /\ info.top_artist[2] =
                                Cardinality(OfArtist(info.top_artist[1]))
                  /\ IF HourTracks(h) = {} THEN info.top_track = <<>>
                     ELSE /\ Len(info.top_track) = 3
                          /\ IsTop1(<<info.top_track[1], info.top_track[2]>>,
                                    HourTracks(h), OfTrack)
                          /\ info.top_track[3] =
                                Cardinality(OfTrack(<<info.top_track[1],
                                                      info.top_track[2]>>))

\* An hour moved by the offset that holds two artists with one play each
\* and an event without artist: the artist seen first is the top.
C14_Witness ==
    /\ HourlyCalled
    /\ utcoffset # 0
    /\ \E h \in 0..23 :
          /\ Cardinality(HourPositions(h)) = 3
          /\ Cardinality(HourArtists(h)) = 2
          /\ Profile[h + 1][2].top_artist[2] = 1

(***************************************************************************)
(* Claims on the day aggregators                                           *)
(***************************************************************************)
\* The positions of the events that fall on local day d (an ordinal).
DayPositions(d) ==
    {i \in 1..Len(scrobbles) :
        RefLocalDay(scrobbles[i]) # None /\ RefLocalDay(scrobbles[i])[1] = d}

\* The local days that have an event.
LocalDays ==
    {RefLocalDay(scrobbles[i])[1] :
        i \in {j \in 1..Len(scrobbles) : RefLocalDay(scrobbles[j]) # None}}

PairOf(e) == <<e.artist, e.track>>

\* The plays of pair on day d.
PairDayPositions(pair, d) == {i \in DayPositions(d) : PairOf(scrobbles[i]) = pair}

MostPlayedCalled == last.op = "get_most_played_track_per_day"

MostPlayed == IF MostPlayedCalled THEN ListOf(last.result) ELSE <<>>

\* C15: get_most_played_track_per_day returns exactly one entry for every
\* local day that has an event with a convertible timestamp, and for no
\* other day; the play count of the entry is the largest number of events
\* a single (artist, track) pair has on that day, and the pair reported is
\* one that attains it.
C15_MostPlayedPerDay ==
    MostPlayedCalled =>
        /\ {LabelOrd(MostPlayed[i][1]) : i \in 1..Len(MostPlayed)} = LocalDays
        /\ Len(MostPlayed) = Cardinality(LocalDays)
        /\ \A i \in 1..Len(MostPlayed) :
              LET d == LabelOrd(MostPlayed[i][1])
                  info == MostPlayed[i][2]
              IN  /\ MostPlayed[i][1] = strftime_day(d)
                  /\ info[5] = Cardinality(PairDayPositions(<<info[1], info[2]>>, d))
                  /\ \A j \in DayPositions(d) :
                        Cardinality(PairDayPositions(PairOf(scrobbles[j]), d)) <= info[5]

\* A day of three plays whose first play is of a pair played once and whose
\* reported pair has two plays.
C15_Witness ==
    /\ MostPlayedCalled
    /\ \E i \in 1..Len(MostPlayed) :
          /\ MostPlayed[i][2][5] = 2
          /\ Cardinality(DayPositions(LabelOrd(MostPlayed[i][1]))) = 3
          /\ PairOf(scrobbles[1]) # <<MostPlayed[i][2][1], MostPlayed[i][2][2]>>

\* The events a day ranking counts: placed in time, and naming the artist
\* or the track the ranking is about.
Qualifies(op, e) ==
    /\ RefLocalDay(e) # None
    /\ op = "get_top_days_overall_by_artist_count" => e.artist # ""
    /\ op = "get_top_days_overall_by_track_count" => e.track # ""

QualifyingOn(op, d) == {i \in DayPositions(d) : Qualifies(op, scrobbles[i])}

\* Plays, distinct artists, or distinct (artist, track) pairs of day d.
DayMetric(op, d) ==
    IF op = "get_top_days_overall" THEN Cardinality(QualifyingOn(op, d))
    ELSE IF op = "get_top_days_overall_by_artist_count"
    THEN Cardinality({scrobbles[i].artist : i \in QualifyingOn(op, d)})
    ELSE Cardinality({PairOf(scrobbles[i]) : i \in QualifyingOn(op, d)})

TopDaysCalled == last.op \in TopDayOps

TopDays == IF TopDaysCalled THEN ListOf(last.result) ELSE <<>>

\* C16: get_top_days_overall, get_top_days_overall_by_artist_count and
\* get_top_days_overall_by_track_count each return at most n entries, at
\* most one per local day, each for a day with a qualifying event, whose
\* metric is the number of events of the day, of its distinct artists and
\* of its distinct (artist, track) pairs respectively, in non-increasing
\* order of metric.
C16_TopDays ==
    TopDaysCalled =>
        /\ Len(TopDays) <= last.n
        /\ \A i \in 1..Len(TopDays) : \A j \in 1..Len(TopDays) :
              i # j => TopDays[i][1] # TopDays[j][1]
        /\ \A i \in 1..Len(TopDays) :
              LET d == LabelOrd(TopDays[i][1])
              IN  /\ TopDays[i][1] = strftime_day(d)
                  /\ QualifyingOn(last.op, d) # {}
                  /\ TopDays[i][2] = DayMetric(last.op, d)
        /\ \A i \in 1..(Len(TopDays) - 1) : TopDays[i][2] >= TopDays[i + 1][2]

\* A day of three plays by two artists, ranked by distinct artists.
C16_Witness ==
    /\ last.op = "get_top_days_overall_by_artist_count"
    /\ Len(TopDays) = 1
    /\ TopDays[1][2] = 2
    /\ Cardinality(QualifyingOn(last.op, LabelOrd(TopDays[1][1]))) = 3

(***************************************************************************)
(* Claims on the per-track day operations (SpecTrackDay)                   *)
(***************************************************************************)
PeakCalled == last.op = "get_peak_day_for_track"

\* The pair a per-track call names.
CalledPair == <<last.artist, last.track>>

\* The plays of pair that are placed in time.
PairPlaced(pair) ==
    {i \in 1..Len(scrobbles) :
        PairOf(scrobbles[i]) = pair /\ RefLocalDay(scrobbles[i]) # None}

PeakPlaysCalled == last.op = "get_top_tracks_by_peak_plays"

\* C17: for an (artist, track) with at least one convertible event,
\* get_peak_day_for_track returns a local day on which the track has its
\* most plays, with that day's play count (the maximum over its days);
\* get_top_tracks_by_peak_plays with n large enough reports the same peak
\* count and the same peak day for the track, and its list is in
\* non-increasing order of peak plays.
C17_PeakDay ==
    /\ (PeakCalled /\ PairPlaced(CalledPair) # {}) =>
          /\ last.result # None
          /\ LET res == last.result[1]
                 d == LabelOrd(res[1])
                 peaks == ListOf(get_top_tracks_by_peak_plays(scrobbles, Len(scrobbles)))
             IN  /\ res[1] = strftime_day(d)
                 /\ res[2] = Cardinality(PairDayPositions(CalledPair, d))
                 /\ \A d2 \in LocalDays :
                       Cardinality(PairDayPositions(CalledPair, d2)) <= res[2]
                 /\ \E i \in 1..Len(peaks) : peaks[i] = <<CalledPair, res[2], res[1]>>
                 /\ \A i \in 1..Len(peaks) :
                       peaks[i][1] = CalledPair => peaks[i] = <<CalledPair, res[2], res[1]>>
    /\ PeakPlaysCalled =>
          \A i \in 1..(Len(ListOf(last.result)) - 1) :
              ListOf(last.result)[i][2] >= ListOf(last.result)[i + 1][2]

\* A track with one play on the day of its first event and two on another
\* day: the peak is the other day, with count 2.
C17_Witness ==
    /\ PeakCalled
    /\ last.result # None
    /\ last.result[1][2] = 2
    /\ Cardinality(PairPlaced(CalledPair)) = 3
    /\ RefLocalDay(scrobbles[1]) # None
    /\ RefLocalDay(scrobbles[1])[1] # LabelOrd(last.result[1][1])

RECURSIVE SumCounts(_)
SumCounts(day_list) ==
    IF day_list = <<>> THEN 0 ELSE Head(day_list)[2] + SumCounts(Tail(day_list))

\* C18: for every event list and every (artist, track) for which
\* get_peak_day_for_track and get_all_days_for_track both return a result,
\* the per-day counts of get_all_days_for_track add up to the total (third
\* component) of get_peak_day_for_track.
C18_DaysSumToTotal ==
    PeakCalled =>
        LET all_days == get_all_days_for_track(scrobbles, last.artist, last.track)
        IN  (last.result # None /\ all_days # None) =>
                SumCounts(all_days[1]) = last.result[1][3]

AllDaysCalled == last.op = "get_all_days_for_track" /\ last.result # None

\* The play counts get_most_played_track_per_day reports for pair, added up.
RECURSIVE ReportedSum(_, _)
ReportedSum(entries, pair) ==
    IF entries = <<>> THEN 0
    ELSE (IF <<Head(entries)[2][1], Head(entries)[2][2]>> = pair
          THEN Head(entries)[2][5] ELSE 0)
         + ReportedSum(Tail(entries), pair)

PerDayTop == ListOf(get_most_played_track_per_day(scrobbles))

\* pair is the pair reported for local day d.
ReportedOn(pair, d) ==
    \E i \in 1..Len(PerDayTop) :
        /\ LabelOrd(PerDayTop[i][1]) = d
        /\ <<PerDayTop[i][2][1], PerDayTop[i][2][2]>> = pair

\* C19 as stated: for a single (artist, track) pair, the per-day play counts
\* get_most_played_track_per_day reports for the pair add up to the total of
\* the counts get_all_days_for_track lists for the pair.
C19_CountConservation ==
    AllDaysCalled => ReportedSum(PerDayTop, CalledPair) = SumCounts(last.result[1])

\* C19 amended: for a single (artist, track) pair, the per-day play counts
\* get_most_played_track_per_day reports for the pair add up to at most the
\* total of the counts get_all_days_for_track lists for the pair, and to
\* exactly that total when, and only when, the pair is the one reported on
\* every local day on which it has a play.
C19_CountBound ==
    AllDaysCalled =>
        /\ ReportedSum(PerDayTop, CalledPair) <= SumCounts(last.result[1])
        /\ ReportedSum(PerDayTop, CalledPair) = SumCounts(last.result[1])
              <=> \A d \in LocalDays :
                      PairDayPositions(CalledPair, d) # {} => ReportedOn(CalledPair, d)

\* A pair with plays on two days that is the reported pair on one of them.
C19_Witness ==
    /\ AllDaysCalled
    /\ Len(last.result[1]) = 2
    /\ SumCounts(last.result[1]) = 2
    /\ ReportedSum(PerDayTop, CalledPair) = 1

(***************************************************************************)
(* Claims on the ranking of streaks (SpecStreak)                           *)
(***************************************************************************)
\* Every component of the streak key of e is named.
KeyNamed(op, e) ==
    /\ e.artist # ""
    /\ op = "get_top_albums_by_consecutive_days" => e.album # ""
    /\ op = "get_top_tracks_by_consecutive_days" => e.track # ""

\* The keys a streak operation finds a day for.
StreakKeys(op) ==
    {StreakKey(op, scrobbles[i]) :
        i \in {j \in 1..Len(scrobbles) :
                  RefLocalDay(scrobbles[j]) # None /\ KeyNamed(op, scrobbles[j])}}

\* C20: each consecutive-days operation returns at most n entries (n
\* positive), at most one per key, in non-increasing order of streak
\* length, and every key left out has a longest streak no longer than that
\* of every returned key.
C20_StreakRanking ==
    last.op \in StreakOps =>
        /\ Len(Entries) <= last.n
        /\ \A i \in 1..Len(Entries) : \A j \in 1..Len(Entries) :
              i # j => Entries[i][1] # Entries[j][1]
        /\ \A i \in 1..(Len(Entries) - 1) : Entries[i][2] >= Entries[i + 1][2]
        /\ \A key \in StreakKeys(last.op) :
              (\A i \in 1..Len(Entries) : Entries[i][1] # key) =>
                  \A i \in 1..Len(Entries) :
                      LongestRunLen(KeyDaySet(last.op, key, scrobbles)) <= Entries[i][2]

\* n = 1 with two tracks: the one seen first has a streak of one day and is
\* left out, the one returned has a streak of two.
C20_Witness ==
    /\ last.op = "get_top_tracks_by_consecutive_days"
    /\ last.n = 1
    /\ Len(Entries) = 1
    /\ Entries[1][2] = 2
    /\ Cardinality(StreakKeys(last.op)) = 2
    /\ StreakKey(last.op, scrobbles[1]) # Entries[1][1]
    /\ StreakKey(last.op, scrobbles[1]) \in StreakKeys(last.op)

(***************************************************************************)
(* The system clock. _utc_to_local asks the system for its UTC offset each *)
(* time it converts a timestamp, so a time-bucketed operation reads the    *)
(* offset once for every event of its loop, and the system may move the    *)
(* offset (a daylight-saving transition, a change of zone) between reads.  *)
(***************************************************************************)
\* The offset the system reports from now on is another one.
SystemOffsetChange ==
    /\ \E offset \in Offsets \ {utcoffset} : utcoffset' = offset
    /\ UNCHANGED <<scrobbles, last>>

\* A call of get_top_days_overall in progress or returned: local_dts holds the
\* local_dt of every iteration so far, day_counts the Counter.
TopDaysRun(n, pc, local_dts, counts, result) ==
    [op |-> "get_top_days_overall", n |-> n, from_date |-> None,
     to_date |-> None, result |-> result, pc |-> pc, local_dts |-> local_dts,
     day_counts |-> counts]

InLoop == "pc" \in DOMAIN last /\ last.pc = "loop"

Returned == "pc" \in DOMAIN last /\ last.pc = "returned"

\* get_top_days_overall is entered: if not scrobbles: return None.
TopDaysOverallEnter ==
    /\ last = NoCall
    /\ \E n \in TopNs :
          last' = IF scrobbles = <<>>
                  THEN TopDaysRun(n, "returned", <<>>, <<>>, None)
                  ELSE TopDaysRun(n, "loop", <<>>, <<>>, None)
    /\ UNCHANGED <<scrobbles, utcoffset>>

\* One iteration of for scrobble in scrobbles: the offset is read now.
TopDaysOverallIterate ==
    /\ InLoop
    /\ Len(last.local_dts) < Len(scrobbles)
    /\ LET scrobble == scrobbles[Len(last.local_dts) + 1]
           local_dt == _utc_to_local(scrobble.utc_time)
       IN  last' = [last EXCEPT
                       !.local_dts = Append(@, local_dt),
                       !.day_counts = IF local_dt # None
                                      THEN CounterAdd(@, day_key_of(local_dt[1]))
                                      ELSE @]
    /\ UNCHANGED <<scrobbles, utcoffset>>

\* The loop is over: if not day_counts: return None; most_common(n).
TopDaysOverallReturn ==
    /\ InLoop
    /\ Len(last.local_dts) = Len(scrobbles)
    /\ last' = [last EXCEPT
                   !.pc = "returned",
                   !.result = IF last.day_counts = <<>> THEN None
                              ELSE Some(most_common(last.day_counts, last.n))]
    /\ UNCHANGED <<scrobbles, utcoffset>>

DiscardReturned == Returned /\ Discard

ClockEvents ==
    {Scrobble("A1", "L1", "T1", t) : t \in {D1, D3, BadDate}}
    \cup {Scrobble("A2", "L2", "T3", D3)}

LoadClock == \E e \in ClockEvents : Load(e)

NextClock ==
    \/ LoadClock
    \/ SystemOffsetChange
    \/ TopDaysOverallEnter
    \/ TopDaysOverallIterate
    \/ TopDaysOverallReturn
    \/ DiscardReturned

SpecClock == Init /\ [][NextClock]_vars

(***************************************************************************)
(* Claims on the UTC offset (SpecClock)                                    *)
(***************************************************************************)
\* The instant (in minutes) the timestamp of the i-th event names.
UtcOf(i) == strptime(scrobbles[i].utc_time)[1]

\* The events the call has converted to a local time so far.
Converted ==
    IF "local_dts" \in DOMAIN last
    THEN {i \in 1..Len(last.local_dts) : last.local_dts[i] # None}
    ELSE {}

LocalOf(i) == last.local_dts[i][1]

\* C23: within one call of a time-bucketed operation every event's UTC
\* timestamp is shifted by one and the same UTC offset, so that two events
\* with equal UTC timestamps land on the same local day and in the same local
\* hour, and of two events t1 <= t2 the first is never placed on a later
\* local day than the second.
C23_OneOffsetPerCall ==
    /\ \E offset \in Offsets :
          \A i \in Converted : LocalOf(i) = UtcOf(i) + offset
    /\ \A i, j \in Converted :
          /\ UtcOf(i) = UtcOf(j) =>
                /\ date_of(LocalOf(i)) = date_of(LocalOf(j))
                /\ hour_of(LocalOf(i)) = hour_of(LocalOf(j))
          /\ UtcOf(i) <= UtcOf(j) => date_of(LocalOf(i)) <= date_of(LocalOf(j))

(***************************************************************************)
(* A call repeated with the same arguments (SpecTwice)                     *)
(***************************************************************************)
\* The value the operation of call c returns on the list s now.
ReturnOf(c, s) ==
    CASE c.op = "get_top_artists" ->
            get_top_artists(s, c.n, c.from_date, c.to_date)
      [] c.op = "get_top_albums" ->
            get_top_albums(s, c.n, c.from_date, c.to_date)
      [] c.op = "get_top_tracks" ->
            get_top_tracks(s, c.n, c.from_date, c.to_date)
      [] OTHER -> ResultOn(c, s)

\* The caller repeats its latest call with the same arguments on the same
\* list; first keeps the value the first call returned.
CallAgain ==
    /\ last # NoCall
    /\ "first" \notin DOMAIN last
    /\ last' = [f \in DOMAIN last \cup {"first"} |->
                   IF f = "first" THEN last.result
                   ELSE IF f = "result" THEN ReturnOf(last, scrobbles)
                   ELSE last[f]]
    /\ UNCHANGED <<scrobbles, utcoffset>>

NextTwice ==
    \/ Next
    \/ SystemOffsetChange
    \/ CallAgain

SpecTwice == Init /\ [][NextTwice]_vars

CalledTwice == "first" \in DOMAIN last

\* C21: calling any ranking, day, streak or hourly operation twice with
\* identical arguments yields identical output: the result is a function of
\* the event list and the parameters only, and nothing is carried over from
\* one call to the next.
C21_SameArgumentsSameResult ==
    CalledTwice => last.result = last.first

(***************************************************************************)
(* Claims relating the three streak finders (SpecStreak)                   *)
(***************************************************************************)
\* The text components of a streak key.
KeyParts(op, key) ==
    IF op = "get_top_artists_by_consecutive_days" THEN <<key>> ELSE key

\* C24: the three consecutive-days operations differ only in the grouping
\* key and in the fields that must be non-empty (track: artist and track;
\* artist: artist; album: artist and album): an event failing the
\* requirement of the operation adds no day to any key, so the result is the
\* result on the list without such events, and no returned key has an empty
\* component.
C24_RequiredFields ==
    last.op \in StreakOps =>
        LET Named(e) == KeyNamed(last.op, e)
        IN  /\ last.result = ResultOn(last, SelectSeq(scrobbles, Named))
            /\ \A i \in 1..Len(Entries) :
                  \A k \in DOMAIN KeyParts(last.op, Entries[i][1]) :
                      KeyParts(last.op, Entries[i][1])[k] # ""

\* An album call on a list with an event that has an artist, a day, and no
\* album, next to an event that is grouped.
C24_Witness ==
    /\ last.op = "get_top_albums_by_consecutive_days"
    /\ Len(Entries) >= 1
    /\ \E i \in 1..Len(scrobbles) :
          /\ scrobbles[i].album = "" /\ scrobbles[i].artist # ""
          /\ RefLocalDay(scrobbles[i]) # None

\* Every event has an artist, an album and a track, and every artist of the
\* list has exactly one album and exactly one track.
OneAlbumOneTrack ==
    /\ \A e \in Range(scrobbles) : e.artist # "" /\ e.album # "" /\ e.track # ""
    /\ \A x \in Range(scrobbles) : \A y \in Range(scrobbles) :
          x.artist = y.artist => (x.album = y.album /\ x.track = y.track)

\* The entries an operation of StreakOps returns on the list, with last.n.
EntriesOf(op) ==
    LET result == ResultOn([op |-> op, n |-> last.n], scrobbles)
    IN  IF result = None THEN <<>> ELSE result[1]

\* The artist a streak key refers to.
ArtistOf(op, key) ==
    IF op = "get_top_artists_by_consecutive_days" THEN key ELSE key[1]

\* C25: on a list where every event has a non-empty artist, album and track
\* and every artist has exactly one album and one track, the three
\* consecutive-days operations return lists of the same length whose i-th
\* entries have the same streak length, start_day and end_day and refer to
\* the same artist.
C25_VariantsAgree ==
    (last.op \in StreakOps /\ OneAlbumOneTrack) =>
        \A op \in StreakOps :
            /\ Len(EntriesOf(op)) = Len(Entries)
            /\ \A i \in 1..Len(Entries) :
                  /\ EntriesOf(op)[i][2] = Entries[i][2]
                  /\ EntriesOf(op)[i][3] = Entries[i][3]
                  /\ EntriesOf(op)[i][4] = Entries[i][4]
                  /\ ArtistOf(op, EntriesOf(op)[i][1])
                        = ArtistOf(last.op, Entries[i][1])

\* Two artists, one album and one track each, the second with the longer
\* streak: each operation lists that artist first.
C25_Witness ==
    /\ last.op = "get_top_albums_by_consecutive_days"
    /\ OneAlbumOneTrack
    /\ Len(Entries) = 2
    /\ Entries[1][2] = 2
    /\ ArtistOf(last.op, Entries[1][1]) # scrobbles[1].artist

\* Every entry an operation of StreakOps finds on the list, best first.
AllEntriesOf(op) ==
    LET result == ResultOn([op |-> op, n |-> Len(scrobbles)], scrobbles)
    IN  IF result = None THEN <<>> ELSE result[1]

\* C26: the longest streak of an artist is at least the longest streak of
\* each of that artist's tracks and of each of that artist's albums, since
\* the artist's day set contains theirs; hence the first entry of
\* get_top_artists_by_consecutive_days has a streak length at least that of
\* the first entry of get_top_tracks_by_consecutive_days.
C26_ArtistDominates ==
    (last.op \in StreakOps \ {"get_top_artists_by_consecutive_days"}) =>
        LET artists == AllEntriesOf("get_top_artists_by_consecutive_days")
        IN  /\ \A i \in 1..Len(Entries) :
                  \E j \in 1..Len(artists) :
                      /\ artists[j][1] = Entries[i][1][1]
                      /\ artists[j][2] >= Entries[i][2]
            /\ Len(Entries) >= 1 =>
                  /\ Len(artists) >= 1
                  /\ artists[1][2] >= Entries[1][2]

\* An artist with two tracks on adjacent days: each track has a streak of
\* one day, the artist a streak of two.
C26_Witness ==
    /\ last.op = "get_top_tracks_by_consecutive_days"
    /\ Len(Entries) = 2
    /\ Entries[1][1][1] = Entries[2][1][1]
    /\ Entries[1][2] = 1
    /\ AllEntriesOf("get_top_artists_by_consecutive_days")[1][2] = 2

\* The days of S that start a run of k consecutive days of S.
RunStarts(S, k) == {d \in S : HasRunFrom(S, d, k)}

\* C28: when a key has several runs of consecutive days of the same,
\* greatest length, each consecutive-days operation reports the
\* chronologically earliest of them, because a later run replaces the
\* recorded one only when it is strictly longer.
C28_EarliestOfTiedRuns ==
    \A i \in 1..Len(Entries) :
        LET S == KeyDaySet(last.op, Entries[i][1], scrobbles)
            starts == RunStarts(S, Entries[i][2])
        IN  /\ LabelOrd(Entries[i][3]) \in starts
            /\ \A d \in starts : LabelOrd(Entries[i][3]) <= d

\* A key with two runs of the greatest length, days apart.
C28_Witness ==
    \E i \in 1..Len(Entries) :
        LET S == KeyDaySet(last.op, Entries[i][1], scrobbles)
        IN  Cardinality(RunStarts(S, Entries[i][2])) >= 2

(***************************************************************************)
(* Bounds that are supplied but are no date (SpecBounds)                   *)
(***************************************************************************)
BoundEvents ==
    {Scrobble("A1", "L1", "T1", t) : t \in {D1, D2, BadDate}}
    \cup {Scrobble("A2", "L2", "T2", D4), Scrobble("A2", "L2", "T2", EmptyText)}

\* (from_date, to_date) arguments of which one at least is given and is the
\* empty string or text that is no date.
OddRanges ==
    {<<Some(EmptyText), None>>, <<Some(EmptyText), Some(EmptyText)>>,
     <<Some(EmptyText), Some(D2)>>, <<Some(D2), Some(EmptyText)>>,
     <<Some(BadDate), None>>, <<None, Some(BadDate)>>,
     <<Some(BadDate), Some(D2)>>, <<Some(D2), Some(BadDate)>>,
     <<Some(BadDate), Some(BadDate)>>, <<Some(BadDate), Some(EmptyText)>>}

LoadBounds == \E e \in BoundEvents : Load(e)

NextBounds ==
    \/ LoadBounds
    \/ TopArtists(OddRanges)
    \/ TopAlbums(OddRanges)
    \/ TopTracks(OddRanges)
    \/ Discard

SpecBounds == InitRank /\ [][NextBounds]_vars

\* The events the call is to count: all of them when each bound is absent
\* or the empty string; otherwise those with a parsable timestamp that meet
\* each bound that is a date.
KeptByBounds ==
    LET Kept(e) == Eligible(e, last.from_date, last.to_date)
    IN  SelectSeq(scrobbles, Kept)

\* C29: a date bound that is supplied but empty or not parsable never makes
\* a ranker raise or return a spurious empty result: an empty-string bound
\* is treated as absent, a non-empty unparsable bound imposes no constraint
\* on its side while events with unparsable timestamps are still dropped,
\* and with only one valid bound the other side is unbounded. So the value
\* returned is the unfiltered ranking of the events to count, and it is
\* empty only when none of them carries the grouped field.
C29_OddBounds ==
    RankCalled =>
        /\ last.result =
              ReturnOf([op |-> last.op, n |-> last.n,
                        from_date |-> None, to_date |-> None], KeptByBounds)
        /\ (\E i \in 1..Len(KeptByBounds) :
               RankField(last.op, KeptByBounds[i]) # "") => Len(Ranked) >= 1

\* A from_date that is no date, on a list with dated events and one whose
\* timestamp is no date: the dated events are all ranked, the other dropped.
C29_Witness ==
    /\ RankCalled
    /\ last.from_date = Some(BadDate) /\ last.to_date = None
    /\ \E i \in 1..Len(scrobbles) : scrobbles[i].utc_time = BadDate
    /\ Len(KeptByBounds) = Len(scrobbles) - 1
    /\ Len(Ranked) = 2

(***************************************************************************)
(* Artwork and permalink of the day's track (SpecArt)                      *)
(***************************************************************************)
\* Scrobble.__init__: url and the images by size as the record carries them.
ScrobbleWith(artist, track, utc_time, url, images) ==
    [Scrobble(artist, "L1", track, utc_time) EXCEPT !.url = url, !.images = images]

ArtEvents ==
    {ScrobbleWith("A1", "T1", D2, "u1", [large |-> "l1", medium |-> "m1"]),
     ScrobbleWith("A1", "T1", D3, "u2", [extralarge |-> "x2", large |-> "l2"]),
     ScrobbleWith("A1", "T1", BadDate, "u3", [extralarge |-> "", medium |-> "m3"]),
     ScrobbleWith("A1", "T1", D2, "u6", [extralarge |-> ""]),
     ScrobbleWith("A1", "T2", D2, "u4", <<>>),
     ScrobbleWith("A1", "T2", D3, "", [medium |-> "m5"])}

LoadArt == \E e \in ArtEvents : Load(e)

NextArt ==
    \/ LoadArt
    \/ MostPlayedTrackPerDay
    \/ Discard

SpecArt == Init /\ [][NextArt]_vars

\* The first event of the list, in list order, that carries pair.
FirstWithPair(pair) ==
    scrobbles[CHOOSE i \in 1..Len(scrobbles) :
                 /\ PairOf(scrobbles[i]) = pair
                 /\ \A j \in 1..(i - 1) : PairOf(scrobbles[j]) # pair]

ArtSizes == <<"extralarge", "large", "medium">>

\* The artwork of the largest of the three sizes an event has a non-empty
\* URL for, the empty string when it has none.
PreferredArt(e) ==
    LET has == {k \in 1..3 : ArtSizes[k] \in DOMAIN e.images
                              /\ e.images[ArtSizes[k]] # ""}
    IN  IF has = {} THEN ""
        ELSE e.images[ArtSizes[CHOOSE k \in has : \A m \in has : k <= m]]

\* C27: for each day entry of get_most_played_track_per_day, the permalink
\* and the artwork are those of the first event of the whole list, in list
\* order, whose (artist, track) is the day's top pair; the artwork is the
\* extralarge image if the event has one, else the large, else the medium,
\* else the empty string.
C27_ArtOfFirstEvent ==
    \A i \in 1..Len(MostPlayed) :
        LET info == MostPlayed[i][2]
            first == FirstWithPair(<<info[1], info[2]>>)
        IN  /\ info[4] = first.url
            /\ info[3] = PreferredArt(first)

\* The day's pair is first carried by an event with no valid timestamp, whose
\* extralarge URL is empty: the entry has that event's permalink and its
\* medium image, though a later event of the pair, on the day, has others.
C27_Witness ==
    /\ MostPlayedCalled
    /\ Len(scrobbles) >= 2
    /\ scrobbles[1].utc_time = BadDate
    /\ \E i \in 1..Len(MostPlayed) :
          /\ MostPlayed[i][2][3] = "m3"
          /\ MostPlayed[i][2][4] = "u3"

(***************************************************************************)
(* calculate_summary_for_scrobbles: the top days and their tracks          *)
(* (SpecSummary)                                                           *)
(***************************************************************************)
\* most_played[day] if day in most_played; None otherwise.
most_played_get(most_played, day) ==
    IF \E k \in 1..Len(most_played) : most_played[k][1] = day
    THEN Some(most_played[CHOOSE k \in 1..Len(most_played) :
                             most_played[k][1] = day][2])
    ELSE None

\* for day, _ in top_days: top_days_most_played[day] = (artist, track, plays)
\* if day in most_played else ().
RECURSIVE top_days_most_played(_, _)
top_days_most_played(top_days, most_played) ==
    IF top_days = <<>> THEN <<>>
    ELSE LET day == Head(top_days)[1]
             info == most_played_get(most_played, day)
         IN  << <<day, IF info # None
                       THEN <<info[1][1], info[1][2], info[1][5]>>
                       ELSE <<>> >> >>
             \o top_days_most_played(Tail(top_days), most_played)

\* calculate_summary_for_scrobbles: top_days, most_played and
\* top_days_most_played of the summary it returns.
SummaryTopDays ==
    /\ last = NoCall
    /\ \E n_days \in TopNs :
          LET top_days == ListOf(get_top_days_overall(scrobbles, n_days))
              most_played == ListOf(get_most_played_track_per_day(scrobbles))
          IN  last' = Call("calculate_summary_for_scrobbles", n_days, None, None,
                           [top_days |-> top_days,
                            top_days_most_played |->
                                top_days_most_played(top_days, most_played)])
    /\ UNCHANGED <<scrobbles, utcoffset>>

NextSummary ==
    \/ LoadSummary
    \/ TopDaysOverall
    \/ MostPlayedTrackPerDay
    \/ SummaryTopDays
    \/ Discard

SpecSummary == Init /\ [][NextSummary]_vars

SummaryCalled == last.op = "calculate_summary_for_scrobbles"

\* The top days a call has returned.
TopDaysReturned ==
    IF SummaryCalled THEN last.result.top_days
    ELSE IF last.op = "get_top_days_overall" THEN ListOf(last.result)
    ELSE <<>>

\* C30: every day returned by get_top_days_overall is a key of
\* get_most_played_track_per_day on the same list, and that day's top-track
\* play count is at most the day's total; consequently
\* calculate_summary_for_scrobbles never stores the empty tuple for a top
\* day in top_days_most_played.
C30_TopDayHasTrack ==
    /\ \A i \in 1..Len(TopDaysReturned) :
          LET info == most_played_get(ListOf(get_most_played_track_per_day(scrobbles)),
                                      TopDaysReturned[i][1])
          IN  /\ info # None
              /\ info[1][5] <= TopDaysReturned[i][2]
    /\ SummaryCalled =>
          /\ Len(last.result.top_days_most_played) = Len(last.result.top_days)
          /\ \A i \in 1..Len(last.result.top_days_most_played) :
                last.result.top_days_most_played[i][2] # <<>>

\* A summary with two top days; on the first, two plays of which the day's
\* track has one.
C30_Witness ==
    /\ SummaryCalled
    /\ Len(last.result.top_days) = 2
    /\ last.result.top_days[1][2] = 2
    /\ last.result.top_days_most_played[1][2][3] = 1

(***************************************************************************)
(* generate_calendar_html (SpecCalendar)                                   *)
(***************************************************************************)
\* The parameters of generate_calendar_html that a keyword may name.
CalendarParams ==
    {"scrobbles", "output_file", "summary", "n_items", "n_days", "n_peak_plays"}

\* The keyword arguments of the callers: the two tests and main.
CalendarKwargs ==
    {[output_file |-> "test_calendar.html", summary |-> None],
     [output_file |-> "test_calendar.html", summary |-> None,
      split_by_year |-> FALSE],
     [output_file |-> "test_calendar_yearly.html", summary |-> None,
      split_by_year |-> TRUE],
     [output_file |-> "calendar.html", summary |-> None, n_items |-> 2,
      n_days |-> 2, n_peak_plays |-> 2, split_by_year |-> FALSE]}

\* A call of generate_calendar_html: the exception it raised ("" for none)
\* and what it wrote to output_file (None for no file).
CalendarCall(kwargs, raised, written) ==
    [op |-> "generate_calendar_html", n |-> 0, from_date |-> None,
     to_date |-> None, result |-> None, kwargs |-> kwargs, raised |-> raised,
     written |-> written]

\* The data the page embeds: const trackPerDay = track_json and, with no
\* hourly_top in the summary, the hourly profile in summaryData.
calendar_html(s, track_per_day) ==
    [trackPerDay |-> track_per_day[1],
     hourly_top |-> ListOf(get_hourly_top(s))]

\* ScrobblesAnalyzer.generate_calendar_html(scrobbles, **kwargs): a keyword
\* that names no parameter raises TypeError before the body runs; with no
\* per-day data the function returns without writing.
GenerateCalendarHtml ==
    /\ last = NoCall
    /\ \E kwargs \in CalendarKwargs :
          last' =
             IF ~(DOMAIN kwargs \subseteq CalendarParams)
             THEN CalendarCall(kwargs, "TypeError", None)
             ELSE LET track_per_day == get_most_played_track_per_day(scrobbles)
                  IN  IF track_per_day = None
                      THEN CalendarCall(kwargs, "", None)
                      ELSE CalendarCall(kwargs, "",
                                        Some(calendar_html(scrobbles, track_per_day)))
    /\ UNCHANGED <<scrobbles, utcoffset>>

NextCalendar ==
    \/ LoadSummary
    \/ GenerateCalendarHtml
    \/ Discard

SpecCalendar == Init /\ [][NextCalendar]_vars

CalendarCalled == last.op = "generate_calendar_html"

\* C22: generate_calendar_html, called on an event list with at least one
\* convertible event, with summary=None and a split_by_year argument (True
\* or False), completes without raising and leaves the output file written
\* with the per-day track data embedded.
C22_CalendarWritten ==
    (/\ CalendarCalled
     /\ "split_by_year" \in DOMAIN last.kwargs
     /\ last.kwargs.summary = None
     /\ \E i \in 1..Len(scrobbles) : RefLocalDay(scrobbles[i]) # None) =>
        /\ last.raised = ""
        /\ last.written # None
        /\ last.written[1].trackPerDay =
              ListOf(get_most_played_track_per_day(scrobbles))

=============================================================================
